---- MODULE Spec2Model ----
(***************************************************************************)
(* The Unix Domain Socket datagram generator of lading                     *)
(* (lading/src/generator/unix_datagram.rs): the parent UnixDatagram        *)
(* (new, spin), its Child tasks (spin: startup wait, connect loop, send    *)
(* loop), the cache producer thread feeding each child's bounded channel,  *)
(* the PeekableReceiver, the throttle, the shutdown signal and the metrics.*)
(*                                                                         *)
(* Every child action is the code between two suspension points (.await)   *)
(* of Child::spin.  What the operating system decides (socket creation,    *)
(* connect, thread creation, the result of send) is a nondeterministic     *)
(* choice of the action.                                                   *)
(*                                                                         *)
(* Beside the generator: the construction of the block caches with the    *)
(* seeded rng, in UnixDatagram::new and in payloadtool's                   *)
(* generate_and_check (SpecBuild), and Serialize::to_bytes of the          *)
(* DogStatsD and TraceAgent payloads (SpecSerialize).                      *)
(*                                                                         *)
(* Further parts, each with its own variables and specification:          *)
(* ConfRange::sample of lading_payload's dogstatsd (SpecSample), the       *)
(* Splunk HEC blackhole (SpecHec, SpecHecAck), generator::Server::run      *)
(* (SpecServerRun), payloadtool's main (SpecTool) and the deserializing    *)
(* of a configuration file (SpecConf).                                     *)
(*                                                                         *)
(* Restrictions of the generator that keep a property decidable: one      *)
(* child with one-byte blocks (SpecSmall), several children with two      *)
(* one-byte blocks (SpecSeveral), byte quantities of more than 32 bits     *)
(* (SpecWide).  The specifications named Fair... add the weak fairness of  *)
(* the tasks the runtime keeps scheduling.                                 *)
(***************************************************************************)
EXTENDS Integers, Sequences, FiniteSets, TLC

(* ------------------------------ bounds -------------------------------- *)

\* Largest parallel_connections explored.
MaxChildren == 2
\* Blocks the cache producers emit in total, over all children.
MaxBlocks == 3
\* Largest block size; the block sizes are 1..MaxBlockBytes (the set
\* get_blocks returns is clipped at UDS_DATAGRAM_LIMIT_BYTES, line 38).
MaxBlockBytes == 2
\* Capacity of the mpsc channel between producer and child (1024 at line 242).
ChannelCapacity == 1
\* connection_failure is counted up to this value and then stays there.
MaxCount == 1

\* Largest max_bytes handed to a serializer.
MaxBytes == 5
\* Most members the TraceAgent serializer draws from its entropy.
MaxMembers == 3
\* Longest encoding of one member.
MaxMemberLen == 3
\* Consecutive peek() calls applied to one state of a receiver.
MaxPeeks == 3
\* Values an rng is asked for while one run builds its block caches.
MaxDraws == 6
\* Largest min, max or constant of a ConfRange.
MaxRange == 9
\* Connections the Splunk HEC blackhole is offered.
MaxConns == 2
\* Largest concurrent_requests_max explored.
MaxPermits == 2
\* Requests the blackhole receives in total.
MaxRequests == 3
\* Largest ack id a client asks about.
MaxAckId == 1
\* Most ids in one ack request.
MaxAcks == 2
\* Largest target PID.
MaxPid == 2
\* Most generators in the configuration file given to payloadtool.
MaxGenerators == 2
\* accept errors of the blackhole's listener that are followed
MaxAcceptErrors == 1

(* ----------------------------- constants ------------------------------ *)

\* usize::MAX, the initial ceiling; the top of the model's integer domain.
UsizeMax == 2147483647

Children == 1..MaxChildren
BlockSizes == 1..MaxBlockBytes
\* The configured rate, and the capacity of each child's token bucket.
BytesPerSecond == MaxBlockBytes
\* io::Error kinds a datagram send can end with.
SendErrors == {"EMSGSIZE", "ENOBUFS"}

NoBlock == [id |-> 0, total_bytes |-> 0]

\* The serializers of to_bytes that are checked.
Payloads == {"DogStatsD", "TraceAgentJson", "TraceAgentMsgPack"}

\* 2^32 scaled to two bits: total_generated_bytes and the budget are u32.
U32Modulus == 4
\* q as u32: the cast keeps the low 32 bits.
AsU32(q) == q % U32Modulus
\* The nonzero u32 values: what a NonZeroU32 budget can be.
Budgets == 1..(U32Modulus - 1)
\* What get_blocks can resolve block_sizes to: a non-empty set of sizes.
SizeSets == (SUBSET BlockSizes) \ {{}}
\* The values one request to an rng can yield.
DrawValues == 0..(MaxBlockBytes - 1)

VARIABLES
    config,              \* the Config handed to UnixDatagram::new
    ppc,                 \* the parent's position: new / spin
    presult,             \* what new or spin returned
    handles,             \* number of child tasks spawned (self.handles)
    shutdown,            \* the shutdown Phase has fired
    pc,                  \* each child's position in Child::spin
    result,              \* each child task's outcome
    startup_rx,          \* each child's startup broadcast receiver
    producer,            \* each child's cache producer thread
    chan,                \* each child's mpsc channel of blocks
    buffered,            \* the PeekableReceiver's one-slot buffer
    total_bytes,         \* the local total_bytes of the send loop
    inflight,            \* the block handed to socket.send
    max_detected_bytes,  \* the adaptive datagram ceiling of each child
    tokens,              \* the level of each child's throttle
    bytes_written,       \* counter (labels shared by all children)
    packets_sent,        \* counter
    request_failure,     \* counter, per error label
    connection_failure,  \* counter
    max_unix_datagram_bytes, \* gauge; -1 while never set
    emitted,             \* history: the blocks each producer emitted
    log,                 \* history: the events of each child's send loop
    caller,              \* who builds block caches: new / generate_and_check
    cpc,                 \* the caller's position in the cache construction
    seed_stream,         \* the values of the seed's stream, as far as drawn
    rng,                 \* values drawn from the caller's rng; -1: no rng yet
    remaining,           \* Cache::fixed: budget not yet filled
    blocks,              \* Cache::fixed: blocks made so far
    block_cache,         \* the caches built, in the order of the children
    passes,              \* history: rng at the start and end of each build
    total_generated_bytes, \* generate_and_check's u32 sum
    payload,             \* the serializer whose to_bytes runs
    max_bytes,           \* to_bytes: its max_bytes argument
    bytes_remaining,     \* DogStatsD::to_bytes: bytes_remaining
    members,             \* TraceAgent::to_bytes: encoded length of each member
    high,                \* TraceAgent::to_bytes: high
    writer,              \* bytes to_bytes has appended to the writer
    spc,                 \* to_bytes: its position and outcome
    conf_range,          \* the ConfRange that is sampled
    sample,              \* ConfRange::sample: its position and outcome
    hec_config,          \* the Config of the Splunk HEC blackhole
    hec_pc,              \* SplunkHec::run: its position
    hec_shutdown,        \* the blackhole's shutdown signal has fired
    ACK_ID,              \* the static AtomicU64
    sem,                 \* permits available in the semaphore
    conn,                \* each connection: its task's position
    request,             \* each connection: the request srv works on
    requests_received,   \* counter
    answered,            \* history: the request answered last, its answer
    ack_ids,             \* history: the ackIds handed out, in order
    accept_errors,       \* history: the accept errors run has logged
    server,              \* generator::Server: its variant
    pid_sender,          \* the target's end of the pid channel
    pid_channel,         \* the PIDs sent and not yet received
    pid_received,        \* what pid_snd.recv() returned to run
    run_pc,              \* Server::run: its position
    run_result,          \* what the sub-server's spin returned
    args,                \* payloadtool: its Args
    file,                \* payloadtool: the file at config_path
    generators,          \* payloadtool: config.generator
    tool_pc,             \* payloadtool main: its position
    generator,           \* payloadtool main: index of the generator to check
    warnings,            \* history: warn!s of generate_and_check
    tool_result,         \* what main returned, or that it panicked
    contents,            \* the YAML document given to serde_yaml::from_str
    parsed               \* what from_str returned

vars == <<config, ppc, presult, handles, shutdown, pc, result, startup_rx,
          producer, chan, buffered, total_bytes, inflight,
          max_detected_bytes, tokens, bytes_written, packets_sent,
          request_failure, connection_failure, max_unix_datagram_bytes,
          emitted, log, caller, cpc, seed_stream, rng, remaining, blocks,
          block_cache, passes, total_generated_bytes, payload, max_bytes,
          bytes_remaining, members, high, writer, spc, conf_range, sample,
          hec_config, hec_pc, hec_shutdown, ACK_ID, sem, conn, request,
          requests_received, answered, ack_ids, accept_errors,
          server, pid_sender, pid_channel, pid_received, run_pc, run_result,
          args, file, generators, tool_pc, generator, warnings, tool_result,
          contents, parsed>>

\* The state of a call of to_bytes.
serVars == <<payload, max_bytes, bytes_remaining, members, high, writer, spc>>

\* The state of the generator (new, spin, the children).
generatorVars == <<ppc, presult, handles, shutdown, pc, result, startup_rx,
                   producer, chan, buffered, total_bytes, inflight,
                   max_detected_bytes, tokens, bytes_written, packets_sent,
                   request_failure, connection_failure,
                   max_unix_datagram_bytes, emitted, log>>
\* The state of a block cache construction.
buildVars == <<caller, cpc, seed_stream, rng, remaining, blocks,
               block_cache, passes, total_generated_bytes>>

\* The state of a call of ConfRange::sample.
sampleVars == <<conf_range, sample>>
\* The state of the Splunk HEC blackhole.
hecVars == <<hec_config, hec_pc, hec_shutdown, ACK_ID, sem, conn, request,
             requests_received, answered, ack_ids, accept_errors>>
\* The state of generator::Server::run and of the pid channel.
runVars == <<server, pid_sender, pid_channel, pid_received, run_pc,
             run_result>>
\* The state of payloadtool's main.
toolVars == <<args, file, generators, tool_pc, generator, warnings,
              tool_result>>
\* The state of the deserialization of a configuration.
confVars == <<contents, parsed>>
\* The state of what runs beside the generator, the cache construction and
\* to_bytes.
sideVars == <<sampleVars, hecVars, runVars, toolVars, confVars>>
\* What a call of ConfRange::sample leaves alone.
besideSample == <<config, generatorVars, buildVars, serVars, hecVars, runVars,
    toolVars, confVars>>
\* What the Splunk HEC blackhole leaves alone.
besideHec == <<config, generatorVars, buildVars, serVars, sampleVars, runVars,
    toolVars, confVars>>
\* What payloadtool's main leaves alone.
besideTool == <<config, generatorVars, buildVars, serVars, sampleVars, hecVars,
    runVars, confVars>>
\* What the deserialization of a configuration leaves alone.
besideConf == <<config, generatorVars, buildVars, serVars, sampleVars, hecVars,
    runVars, toolVars>>
\* What generator::Server::run leaves alone.
besideRun == <<config, generatorVars, buildVars, serVars, sampleVars, hecVars,
    toolVars, confVars>>

parentVars == <<ppc, presult, handles>>
metricVars == <<bytes_written, packets_sent, request_failure,
                connection_failure, max_unix_datagram_bytes>>
cacheVars  == <<producer, chan, emitted>>
loopVars   == <<buffered, total_bytes, inflight, max_detected_bytes, tokens, log>>

(* ------------------------------ helpers ------------------------------- *)

Min(a, b) == IF a < b THEN a ELSE b

\* A counter increment, tracked up to MaxCount.
CountUp(x) == IF x < MaxCount THEN x + 1 ELSE x

Event(e, b, n, err) == [ev |-> e, blk |-> b, n |-> n, err |-> err]

RECURSIVE SumLen(_)
SumLen(f) ==
    IF DOMAIN f = {} THEN 0
    ELSE LET c == CHOOSE x \in DOMAIN f : TRUE
         IN Len(f[c]) + SumLen([d \in DOMAIN f \ {c} |-> f[d]])

\* Blocks emitted so far by all producers.
TotalEmitted == SumLen(emitted)

(* ------------------------------- Init --------------------------------- *)

\* Nothing has run yet: the generator's tasks and metrics.
InitGenerator ==
    /\ ppc = "new"
    /\ presult = "none"
    /\ handles = 0
    /\ shutdown = FALSE
    /\ pc = [c \in Children |-> "unspawned"]
    /\ result = [c \in Children |-> "none"]
    /\ startup_rx = [c \in Children |-> "none"]
    /\ producer = [c \in Children |-> "none"]
    /\ chan = [c \in Children |-> <<>>]
    /\ buffered = [c \in Children |-> <<>>]
    /\ total_bytes = [c \in Children |-> 0]
    /\ inflight = [c \in Children |-> <<>>]
    /\ max_detected_bytes = [c \in Children |-> UsizeMax]
    /\ tokens = [c \in Children |-> 0]
    /\ bytes_written = 0
    /\ packets_sent = 0
    /\ request_failure = [e \in SendErrors |-> 0]
    /\ connection_failure = 0
    /\ max_unix_datagram_bytes = -1
    /\ emitted = [c \in Children |-> <<>>]
    /\ log = [c \in Children |-> <<>>]

\* No block cache construction has begun.
InitBuild ==
    /\ cpc = "seed"
    /\ seed_stream = <<>>
    /\ rng = -1
    /\ remaining = 0
    /\ blocks = <<>>
    /\ block_cache = <<>>
    /\ passes = <<>>
    /\ total_generated_bytes = 0

\* to_bytes has not been called: any serializer, any max_bytes.
InitSerialize ==
    /\ payload \in Payloads
    /\ max_bytes \in 0..MaxBytes
    /\ bytes_remaining = 0
    /\ members = <<>>
    /\ high = 0
    /\ writer = 0
    /\ spc = "call"

\* No serializer is looked at.
NoSerialize ==
    /\ payload = "DogStatsD"
    /\ max_bytes = 0
    /\ bytes_remaining = 0
    /\ members = <<>>
    /\ high = 0
    /\ writer = 0
    /\ spc = "none"

\* The ConfRange values: Constant(c) and Inclusive { min, max }.
ConfRanges ==
    [kind : {"Constant"}, c : 0..MaxRange]
        \cup [kind : {"Inclusive"}, min : 0..MaxRange, max : 0..MaxRange]

\* sample has not been called: any ConfRange.
InitSample ==
    /\ conf_range \in ConfRanges
    /\ sample = [st |-> "call", v |-> 0]

\* No ConfRange is looked at.
NoSample ==
    /\ conf_range = [kind |-> "Constant", c |-> 0]
    /\ sample = [st |-> "none", v |-> 0]

Conns == 1..MaxConns
NoRequest == [method |-> "none", path |-> "none", content_encoding |-> "none",
              body |-> [kind |-> "none", acks |-> <<>>]]

NoAcks == [id \in {} |-> TRUE]
\* The n-th answer of srv: the request and the response to it.
Answer(n, req, status, ack_id, acks) ==
    [n |-> n, req |-> req,
     resp |-> [status |-> status, ack_id |-> ack_id, acks |-> acks]]
NoAnswer == Answer(0, NoRequest, "none", <<>>, NoAcks)

\* SplunkHec::new has returned and run has not begun: any
\* concurrent_requests_max; ACK_ID is zero.
InitHec ==
    /\ hec_config \in [concurrent_requests_max : 0..MaxPermits]
    /\ hec_pc = "bind"
    /\ hec_shutdown = FALSE
    /\ ACK_ID = 0
    /\ sem = 0
    /\ conn = [k \in Conns |-> "none"]
    /\ request = [k \in Conns |-> NoRequest]
    /\ requests_received = 0
    /\ answered = NoAnswer
    /\ ack_ids = <<>>
    /\ accept_errors = 0

\* No blackhole is configured.
NoHec ==
    /\ hec_config = [concurrent_requests_max |-> 0]
    /\ hec_pc = "none"
    /\ hec_shutdown = FALSE
    /\ ACK_ID = 0
    /\ sem = 0
    /\ conn = [k \in Conns |-> "none"]
    /\ request = [k \in Conns |-> NoRequest]
    /\ requests_received = 0
    /\ answered = NoAnswer
    /\ ack_ids = <<>>
    /\ accept_errors = 0

\* The variants of generator::Server.
Servers == {"Tcp", "Udp", "Http", "SplunkHec", "FileGen", "FileTree", "Grpc",
            "UnixStream", "UnixDatagram", "ProcessTree"}

\* Server::new has returned; run has been called with the receiver of the
\* pid channel, on which nothing was sent yet.
InitRun ==
    /\ server \in Servers
    /\ pid_sender = "live"
    /\ pid_channel = <<>>
    /\ pid_received = "none"
    /\ run_pc = "recv"
    /\ run_result = "none"

\* No generator::Server is looked at.
NoRun ==
    /\ server = "UnixDatagram"
    /\ pid_sender = "live"
    /\ pid_channel = <<>>
    /\ pid_received = "none"
    /\ run_pc = "none"
    /\ run_result = "none"

\* payloadtool has not been started.
NoTool ==
    /\ args = [generator_id |-> "none"]
    /\ file = "ok"
    /\ generators = <<>>
    /\ tool_pc = "none"
    /\ generator = 0
    /\ warnings = 0
    /\ tool_result = "none"

\* A field that is absent from a document, and Option's None.
Absent == <<>>
\* The telemetry of a document: its fields, absent or given.
TelemetryOf(addr, path, labels) ==
    [prometheus_addr |-> addr, path |-> path, global_labels |-> labels]
\* A document: telemetry, generator and blackhole, absent or given.
Document(t, g, b) == [telemetry |-> t, generator |-> g, blackhole |-> b]
NoDocument == Document(Absent, Absent, Absent)
\* The Result of from_str.
NotParsed == [result |-> "none", telemetry |-> TelemetryOf(Absent, Absent, Absent),
              generator |-> <<>>, blackhole |-> Absent]

\* No configuration is deserialized.
NoConf ==
    /\ contents = NoDocument
    /\ parsed = NotParsed

\* Nothing runs beside the generator.
NoSide == NoSample /\ NoHec /\ NoRun /\ NoTool /\ NoConf

Init ==
    /\ config \in [parallel_connections : 0..MaxChildren,
                   bytes_per_second : {0, BytesPerSecond},
                   maximum_prebuild_cache_size_bytes : {0, U32Modulus - 1}]
    /\ InitGenerator
    /\ caller = "new"
    /\ InitBuild
    /\ NoSerialize
    /\ NoSide

(* ------------------------- UnixDatagram::new -------------------------- *)

\* tokio::spawn(child.spin(startup.subscribe())) for the first k children:
\* each is subscribed to the startup broadcast when it is spawned and waits
\* at startup_receiver.recv(); its throttle is new and full.
SpawnChildren(k) ==
    /\ handles' = k
    /\ pc' = [c \in Children |-> IF c <= k THEN "startup" ELSE pc[c]]
    /\ startup_rx' = [c \in Children |-> IF c <= k THEN "empty" ELSE startup_rx[c]]
    /\ tokens' = [c \in Children |->
                    IF c <= k THEN AsU32(config.bytes_per_second) ELSE tokens[c]]

\* Mutant: new sends the startup value to the children it spawned before
\* it fails.
NewFailsSendsStartup(err, k) ==
    /\ ppc' = "failed"
    /\ presult' = err
    /\ handles' = k
    /\ pc' = [c \in Children |-> IF c <= k THEN "startup" ELSE pc[c]]
    /\ startup_rx' = [c \in Children |-> IF c <= k THEN "value" ELSE startup_rx[c]]
    /\ tokens' = [c \in Children |->
                    IF c <= k THEN AsU32(config.bytes_per_second) ELSE tokens[c]]

\* new fails: the children spawned so far keep running, the startup sender
\* is dropped with the function's locals.
NewFails(err, k) ==
    /\ ppc' = "failed"
    /\ presult' = err
    /\ SpawnChildren(k)

New ==
    /\ ppc = "new"
    /\ IF AsU32(config.bytes_per_second) = 0
       THEN NewFails("Zero", 0)
       ELSE IF config.parallel_connections > 0
               /\ AsU32(config.maximum_prebuild_cache_size_bytes) = 0
       THEN NewFails("Zero", 0)
       ELSE \/ \E k \in 1..config.parallel_connections :
                  \* block::Cache::stream / fixed of child k fails
                  NewFails("Block", k - 1)
            \/ /\ ppc' = "constructed"
               /\ presult' = "none"
               /\ SpawnChildren(config.parallel_connections)
    /\ UNCHANGED <<config, sideVars, buildVars, serVars, shutdown, result, metricVars, cacheVars,
                   buffered, total_bytes, inflight, max_detected_bytes, log>>

(* ------------------------- UnixDatagram::spin ------------------------- *)

\* The broadcast sender is gone: new failed, or spin returned and dropped self.
SenderDropped == ppc \in {"failed", "returned"}

\* Receivers of the startup broadcast that are alive.
Receivers == {c \in Children : startup_rx[c] \in {"empty", "value"}}

\* self.startup.send(())?  -- fails when no receiver is subscribed.
StartupSend ==
    /\ ppc = "constructed"
    /\ IF Receivers = {}
       THEN /\ ppc' = "returned"
            /\ presult' = "StartupSend"
            /\ UNCHANGED startup_rx
       ELSE /\ ppc' = "await_shutdown"
            /\ startup_rx' = [c \in Children |->
                   IF c \in Receivers THEN "value" ELSE startup_rx[c]]
            /\ UNCHANGED presult
    /\ UNCHANGED <<config, sideVars, buildVars, serVars, handles, shutdown, pc, result, metricVars,
                   cacheVars, loopVars>>

\* Mutant: spin goes on to the join without the shutdown signal.
SpinShutdownRecvNoWait ==
    /\ ppc = "await_shutdown"
    /\ ppc' = "join"
    /\ UNCHANGED <<config, sideVars, buildVars, serVars, presult, handles, shutdown, pc, result, startup_rx,
                   metricVars, cacheVars, loopVars>>

\* self.shutdown.recv().await
SpinShutdownRecv ==
    /\ ppc = "await_shutdown"
    /\ shutdown
    /\ ppc' = "join"
    /\ UNCHANGED <<config, sideVars, buildVars, serVars, presult, handles, shutdown, pc, result, startup_rx,
                   metricVars, cacheVars, loopVars>>

\* What a JoinHandle yields, as the error spin makes of it.
HandleError(r) == IF r = "Panic" THEN "Child" ELSE r

\* Mutant: the loop reports the error of the last failed child.
RECURSIVE JoinResultLast(_, _, _)
JoinResultLast(res, i, n) ==
    IF i > n THEN "Ok"
    ELSE IF res[n] = "Ok" THEN JoinResultLast(res, i, n - 1)
    ELSE HandleError(res[n])

\* The for loop over join_all's results, which are in spawn order.
RECURSIVE JoinResult(_, _, _)
JoinResult(res, i, n) ==
    IF i > n THEN "Ok"
    ELSE IF res[i] = "Ok" THEN JoinResult(res, i + 1, n)
    ELSE HandleError(res[i])

\* join_all(self.handles.drain(..)).await and the loop over its results.
SpinJoin ==
    /\ ppc = "join"
    /\ \A c \in 1..handles : pc[c] = "done"
    /\ ppc' = "returned"
    /\ presult' = JoinResult(result, 1, handles)
    /\ UNCHANGED <<config, sideVars, buildVars, serVars, handles, shutdown, pc, result, startup_rx,
                   metricVars, cacheVars, loopVars>>

\* The process driver fires the shutdown signal, once.
Shutdown ==
    /\ ~shutdown
    /\ shutdown' = TRUE
    /\ UNCHANGED <<config, sideVars, buildVars, serVars, parentVars, pc, result, startup_rx, metricVars,
                   cacheVars, loopVars>>

\* Mutant: the channel is made with twice the capacity.
SndCapacityTwice == 2 * ChannelCapacity

\* let (snd, rcv) = mpsc::channel(1024): the capacity of the channel the
\* child makes for its producer.
SndCapacity == ChannelCapacity

(* ------------------------ the cache producer -------------------------- *)

\* block_cache.spin(snd): emit the next block and send it into the channel;
\* the send waits while the channel is full.
Produce(c) ==
    /\ producer[c] = "running"
    /\ pc[c] # "done"
    /\ Len(chan[c]) < SndCapacity
    /\ TotalEmitted < MaxBlocks
    /\ \E n \in BlockSizes :
         LET blk == [id |-> Len(emitted[c]) + 1, total_bytes |-> n]
         IN /\ chan' = [chan EXCEPT ![c] = Append(@, blk)]
            /\ emitted' = [emitted EXCEPT ![c] = Append(@, blk)]
    /\ UNCHANGED <<config, sideVars, buildVars, serVars, parentVars, shutdown, pc, result, startup_rx,
                   producer, metricVars, loopVars>>

\* The receiver was dropped (the child returned): the send fails and the
\* thread ends.
ProducerSendFails(c) ==
    /\ producer[c] = "running"
    /\ pc[c] = "done"
    /\ producer' = [producer EXCEPT ![c] = "ended"]
    /\ UNCHANGED <<config, sideVars, buildVars, serVars, parentVars, shutdown, pc, result, startup_rx,
                   chan, emitted, metricVars, loopVars>>

\* The cache fails to make its next block: the thread ends with the error
\* and drops the sender, which closes the channel.
ProducerFails(c) ==
    /\ producer[c] = "running"
    /\ pc[c] # "done"
    /\ producer' = [producer EXCEPT ![c] = "ended"]
    /\ UNCHANGED <<config, sideVars, buildVars, serVars, parentVars, shutdown, pc, result, startup_rx,
                   chan, emitted, metricVars, loopVars>>

(* ------------------------- PeekableReceiver --------------------------- *)

\* peek() can return: an item is buffered or can be received.
PeekHasItem(buf, ch) == buf # <<>> \/ ch # <<>>
\* Mutant: peek() reads the channel again although an item is buffered.
PeekBufferRefetch(buf, ch) == IF ch # <<>> THEN <<Head(ch)>> ELSE buf

\* The buffer and the channel after peek(): an empty buffer is filled with
\* the channel's head.
PeekBuffer(buf, ch) == IF buf # <<>> THEN buf ELSE <<Head(ch)>>
PeekChannel(buf, ch) == IF buf # <<>> THEN ch ELSE Tail(ch)
\* next(): the buffered item if there is one, else the channel's head.
NextItem(buf, ch) == IF buf # <<>> THEN buf[1] ELSE Head(ch)
NextChannel(buf, ch) == IF buf # <<>> THEN ch ELSE Tail(ch)

\* The receiver after k consecutive peek() calls.
RECURSIVE PeekTimes(_, _, _)
PeekTimes(k, buf, ch) ==
    IF k = 0 THEN [buf |-> buf, ch |-> ch]
    ELSE PeekTimes(k - 1, PeekBuffer(buf, ch), PeekChannel(buf, ch))

(* ----------------------------- Throttle ------------------------------- *)

\* wait_for(amount) completes once the bucket holds amount tokens.
ThrottleReady(level, amount) == level >= amount
ThrottleTake(level, amount) == level - amount

\* The level after a second of wall-clock time: bytes_per_second tokens
\* more, up to the capacity.
ThrottleRefill(level) ==
    Min(level + AsU32(config.bytes_per_second), AsU32(config.bytes_per_second))

\* A second of wall-clock time passes: every live bucket is refilled.
Tick ==
    /\ \E c \in Children : pc[c] \notin {"unspawned", "done"}
                            /\ tokens[c] < AsU32(config.bytes_per_second)
    /\ tokens' = [c \in Children |->
                    IF pc[c] \notin {"unspawned", "done"}
                    THEN ThrottleRefill(tokens[c]) ELSE tokens[c]]
    /\ UNCHANGED <<config, sideVars, buildVars, serVars, parentVars, shutdown, pc, result, startup_rx,
                   metricVars, cacheVars, buffered, total_bytes, inflight,
                   max_detected_bytes, log>>

(* --------------------------- Child::spin ------------------------------ *)

\* Mutant: the task ends but its channel receiver is kept alive.
ChildReturnsKeepsReceiver(c, r) ==
    /\ pc' = [pc EXCEPT ![c] = "leaked"]
    /\ result' = [result EXCEPT ![c] = r]
    /\ startup_rx' = [startup_rx EXCEPT ![c] = "dropped"]

\* The task ends with outcome r; its locals (receivers, socket) are dropped.
ChildReturns(c, r) ==
    /\ pc' = [pc EXCEPT ![c] = "done"]
    /\ result' = [result EXCEPT ![c] = r]
    /\ startup_rx' = [startup_rx EXCEPT ![c] = "dropped"]

\* Mutant: the child does not wait for the startup value.
StartupRecvNoWait(c) ==
    /\ pc[c] = "startup"
    /\ startup_rx[c] \in {"empty", "value"}
    /\ \/ /\ startup_rx' = [startup_rx EXCEPT ![c] = "empty"]
          /\ pc' = [pc EXCEPT ![c] = "connect"]
          /\ UNCHANGED result
       \/ ChildReturns(c, "Io")
    /\ UNCHANGED <<config, sideVars, buildVars, serVars, parentVars, shutdown, metricVars, cacheVars, loopVars>>

\* startup_receiver.recv().await? and, with the value received, the
\* creation of the socket: net::UnixDatagram::unbound().map_err(Error::Io)?
StartupRecv(c) ==
    /\ pc[c] = "startup"
    /\ \/ /\ startup_rx[c] = "value"
          /\ \/ /\ startup_rx' = [startup_rx EXCEPT ![c] = "empty"]
                /\ pc' = [pc EXCEPT ![c] = "connect"]
                /\ UNCHANGED result
             \/ \* net::UnixDatagram::unbound() fails
                ChildReturns(c, "Io")
       \/ /\ startup_rx[c] = "empty"
          /\ SenderDropped
          /\ ChildReturns(c, "StartupWait")
    /\ UNCHANGED <<config, sideVars, buildVars, serVars, parentVars, shutdown, metricVars, cacheVars, loopVars>>

\* Mutant: a failed connect is not counted.
ConnectUncounted(c) ==
    /\ pc[c] = "connect"
    /\ \/ /\ pc' = [pc EXCEPT ![c] = "peek"]
          /\ producer' = [producer EXCEPT ![c] = "running"]
          /\ max_detected_bytes' = [max_detected_bytes EXCEPT ![c] = UsizeMax]
          /\ log' = [log EXCEPT ![c] =
                       Append(@, Event("connect", NoBlock, 0, "none"))]
          /\ UNCHANGED <<result, startup_rx, connection_failure>>
       \/ /\ pc' = [pc EXCEPT ![c] = "sleep"]
          /\ UNCHANGED <<result, startup_rx, producer, max_detected_bytes,
                         connection_failure, log>>
    /\ UNCHANGED <<config, sideVars, buildVars, serVars, parentVars, shutdown, chan, emitted, buffered,
                   total_bytes, inflight, tokens, bytes_written,
                   packets_sent, request_failure, max_unix_datagram_bytes>>

\* One pass of the connect loop.  On success the child makes the channel,
\* spawns the producer thread (which can fail), registers its metrics and
\* sets max_detected_bytes; on failure it counts and sleeps.
Connect(c) ==
    /\ pc[c] = "connect"
    /\ \/ /\ pc' = [pc EXCEPT ![c] = "peek"]
          /\ producer' = [producer EXCEPT ![c] = "running"]
          /\ max_detected_bytes' = [max_detected_bytes EXCEPT ![c] = UsizeMax]
          /\ log' = [log EXCEPT ![c] =
                       Append(@, Event("connect", NoBlock, 0, "none"))]
          /\ UNCHANGED <<result, startup_rx, connection_failure>>
       \/ /\ ChildReturns(c, "Io")
          /\ UNCHANGED <<producer, max_detected_bytes, connection_failure, log>>
       \/ /\ connection_failure' = CountUp(connection_failure)
          /\ pc' = [pc EXCEPT ![c] = "sleep"]
          /\ UNCHANGED <<result, startup_rx, producer, max_detected_bytes, log>>
    /\ UNCHANGED <<config, sideVars, buildVars, serVars, parentVars, shutdown, chan, emitted, buffered,
                   total_bytes, inflight, tokens, bytes_written,
                   packets_sent, request_failure, max_unix_datagram_bytes>>

\* tokio::time::sleep(1 s).await is over.
ConnectSleep(c) ==
    /\ pc[c] = "sleep"
    /\ pc' = [pc EXCEPT ![c] = "connect"]
    /\ UNCHANGED <<config, sideVars, buildVars, serVars, parentVars, shutdown, result, startup_rx,
                   metricVars, cacheVars, loopVars>>

\* Mutant: the size test is off by one.
OversizedOffByOne(sz, ceiling) == sz - 1 > ceiling

\* The block exceeds the detected ceiling.
Oversized(sz, ceiling) == sz > ceiling

\* Mutant: a closed and empty channel ends the child with Ok(()).
PeekClosedReturnsOk(c) ==
    /\ pc[c] = "peek"
    /\ IF PeekHasItem(buffered[c], chan[c])
       THEN LET buf == PeekBuffer(buffered[c], chan[c])
                ch  == PeekChannel(buffered[c], chan[c])
                blk == buf[1]
            IN /\ total_bytes' = [total_bytes EXCEPT ![c] = blk.total_bytes]
               /\ IF Oversized(blk.total_bytes, max_detected_bytes[c])
                  THEN /\ buffered' = [buffered EXCEPT ![c] = <<>>]
                       /\ chan' = [chan EXCEPT ![c] = NextChannel(buf, ch)]
                       /\ log' = [log EXCEPT ![c] = @ \o
                                    <<Event("peek", blk, 0, "none"),
                                      Event("skip", NextItem(buf, ch), 0, "none")>>]
                       /\ UNCHANGED pc
                  ELSE /\ buffered' = [buffered EXCEPT ![c] = buf]
                       /\ chan' = [chan EXCEPT ![c] = ch]
                       /\ log' = [log EXCEPT ![c] =
                                    Append(@, Event("peek", blk, 0, "none"))]
                       /\ pc' = [pc EXCEPT ![c] = "select"]
               /\ UNCHANGED <<result, startup_rx>>
       ELSE
            /\ producer[c] = "ended"
            /\ ChildReturns(c, "Ok")
            /\ UNCHANGED <<chan, buffered, total_bytes, log>>
    /\ UNCHANGED <<config, sideVars, buildVars, serVars, parentVars, shutdown, producer, emitted, inflight,
                   max_detected_bytes, tokens, metricVars>>

\* rcv.peek().await, then the size test; an oversized block is taken with
\* rcv.next() and dropped.
Peek(c) ==
    /\ pc[c] = "peek"
    /\ IF PeekHasItem(buffered[c], chan[c])
       THEN LET buf == PeekBuffer(buffered[c], chan[c])
                ch  == PeekChannel(buffered[c], chan[c])
                blk == buf[1]
            IN /\ total_bytes' = [total_bytes EXCEPT ![c] = blk.total_bytes]
               /\ IF Oversized(blk.total_bytes, max_detected_bytes[c])
                  THEN /\ buffered' = [buffered EXCEPT ![c] = <<>>]
                       /\ chan' = [chan EXCEPT ![c] = NextChannel(buf, ch)]
                       /\ log' = [log EXCEPT ![c] = @ \o
                                    <<Event("peek", blk, 0, "none"),
                                      Event("skip", NextItem(buf, ch), 0, "none")>>]
                       /\ UNCHANGED pc
                  ELSE /\ buffered' = [buffered EXCEPT ![c] = buf]
                       /\ chan' = [chan EXCEPT ![c] = ch]
                       /\ log' = [log EXCEPT ![c] =
                                    Append(@, Event("peek", blk, 0, "none"))]
                       /\ pc' = [pc EXCEPT ![c] = "select"]
               /\ UNCHANGED <<result, startup_rx>>
       ELSE \* the channel is closed and empty: peek returns None, expect panics
            /\ producer[c] = "ended"
            /\ ChildReturns(c, "Panic")
            /\ UNCHANGED <<chan, buffered, total_bytes, log>>
    /\ UNCHANGED <<config, sideVars, buildVars, serVars, parentVars, shutdown, producer, emitted, inflight,
                   max_detected_bytes, tokens, metricVars>>

\* Mutant: the block is removed before the throttle is asked.
ThrottleBranchRemovesFirst(c) ==
    /\ pc[c] = "select"
    /\ ThrottleReady(tokens[c], total_bytes[c])
    /\ LET blk == NextItem(buffered[c], chan[c])
       IN /\ tokens' = [tokens EXCEPT ![c] = ThrottleTake(@, total_bytes[c])]
          /\ chan' = [chan EXCEPT ![c] = NextChannel(buffered[c], chan[c])]
          /\ buffered' = [buffered EXCEPT ![c] = <<>>]
          /\ inflight' = [inflight EXCEPT ![c] = <<blk>>]
          /\ log' = [log EXCEPT ![c] = @ \o
                       <<Event("next", blk, 0, "none"),
                         Event("grant", NoBlock, total_bytes[c], "none")>>]
    /\ pc' = [pc EXCEPT ![c] = "send"]
    /\ UNCHANGED <<config, sideVars, buildVars, serVars, parentVars, shutdown, result, startup_rx, producer,
                   emitted, total_bytes, max_detected_bytes, metricVars>>

\* Mutant: the block sent is received from the channel, past the peeked one.
ThrottleBranchPastPeeked(c) ==
    /\ pc[c] = "select"
    /\ ThrottleReady(tokens[c], total_bytes[c])
    /\ LET blk == NextItem(<<>>, chan[c] \o buffered[c])
       IN /\ tokens' = [tokens EXCEPT ![c] = ThrottleTake(@, total_bytes[c])]
          /\ chan' = [chan EXCEPT ![c] = IF chan[c] = <<>> THEN <<>> ELSE Tail(@)]
          /\ buffered' = [buffered EXCEPT ![c] = IF chan[c] = <<>> THEN <<>> ELSE @]
          /\ inflight' = [inflight EXCEPT ![c] = <<blk>>]
          /\ log' = [log EXCEPT ![c] = @ \o
                       <<Event("grant", NoBlock, total_bytes[c], "none"),
                         Event("next", blk, 0, "none")>>]
    /\ pc' = [pc EXCEPT ![c] = "send"]
    /\ UNCHANGED <<config, sideVars, buildVars, serVars, parentVars, shutdown, result, startup_rx, producer,
                   emitted, total_bytes, max_detected_bytes, metricVars>>

\* The throttle branch of the select: wait_for(total_bytes) completed; the
\* block is taken with rcv.next() and handed to socket.send.
ThrottleBranch(c) ==
    /\ pc[c] = "select"
    /\ ThrottleReady(tokens[c], total_bytes[c])
    /\ LET blk == NextItem(buffered[c], chan[c])
       IN /\ tokens' = [tokens EXCEPT ![c] = ThrottleTake(@, total_bytes[c])]
          /\ chan' = [chan EXCEPT ![c] = NextChannel(buffered[c], chan[c])]
          /\ buffered' = [buffered EXCEPT ![c] = <<>>]
          /\ inflight' = [inflight EXCEPT ![c] = <<blk>>]
          /\ log' = [log EXCEPT ![c] = @ \o
                       <<Event("grant", NoBlock, total_bytes[c], "none"),
                         Event("next", blk, 0, "none")>>]
    /\ pc' = [pc EXCEPT ![c] = "send"]
    /\ UNCHANGED <<config, sideVars, buildVars, serVars, parentVars, shutdown, result, startup_rx, producer,
                   emitted, total_bytes, max_detected_bytes, metricVars>>

\* Mutant: the shutdown branch takes the peeked block before it returns.
ShutdownBranchConsumes(c) ==
    /\ pc[c] = "select"
    /\ shutdown
    /\ ChildReturns(c, "Ok")
    /\ chan' = [chan EXCEPT ![c] = NextChannel(buffered[c], chan[c])]
    /\ buffered' = [buffered EXCEPT ![c] = <<>>]
    /\ UNCHANGED <<config, sideVars, buildVars, serVars, parentVars, shutdown, metricVars, producer, emitted,
                   total_bytes, inflight, max_detected_bytes, tokens, log>>

\* Mutant: the wait_for dropped by the shutdown branch has taken a token.
ShutdownBranchTakesTokens(c) ==
    /\ pc[c] = "select"
    /\ shutdown
    /\ ChildReturns(c, "Ok")
    /\ tokens' = [tokens EXCEPT ![c] = IF @ > 0 THEN @ - 1 ELSE @]
    /\ UNCHANGED <<config, sideVars, buildVars, serVars, parentVars, shutdown, metricVars, cacheVars,
                   buffered, total_bytes, inflight, max_detected_bytes, log>>

\* The shutdown branch of the select: return Ok(()).
ShutdownBranch(c) ==
    /\ pc[c] = "select"
    /\ shutdown
    /\ ChildReturns(c, "Ok")
    /\ UNCHANGED <<config, sideVars, buildVars, serVars, parentVars, shutdown, metricVars, cacheVars, loopVars>>

\* Mutant: the ceiling learnt is the failed length itself.
LearnedCeilingSame(len) == len

\* The ceiling learnt from a failed send of a block of len bytes.
LearnedCeiling(len) == len - 1

\* Mutant: a partial write is accounted as a failure.
SendOkPartialFails(c, blk, n) ==
    /\ log' = [log EXCEPT ![c] = Append(@, Event("write", blk, n, "none"))]
    /\ IF n < blk.total_bytes
       THEN /\ request_failure' = [request_failure EXCEPT !["EMSGSIZE"] = @ + 1]
            /\ UNCHANGED <<bytes_written, packets_sent>>
       ELSE /\ bytes_written' = bytes_written + n
            /\ packets_sent' = packets_sent + 1
            /\ UNCHANGED request_failure
    /\ UNCHANGED <<max_detected_bytes, max_unix_datagram_bytes>>

\* Mutant: a successful send counts the block's length, not what was sent.
SendOkCountsLength(c, blk, n) ==
    /\ bytes_written' = bytes_written + blk.total_bytes
    /\ packets_sent' = packets_sent + 1
    /\ log' = [log EXCEPT ![c] = Append(@, Event("write", blk, n, "none"))]
    /\ UNCHANGED <<max_detected_bytes, max_unix_datagram_bytes, request_failure>>

\* socket.send(&blk.bytes).await returned Ok(n).
SendOk(c, blk, n) ==
    /\ bytes_written' = bytes_written + n
    /\ packets_sent' = packets_sent + 1
    /\ log' = [log EXCEPT ![c] = Append(@, Event("write", blk, n, "none"))]
    /\ UNCHANGED <<max_detected_bytes, max_unix_datagram_bytes, request_failure>>

\* Mutant: a failed send is not counted in request_failure.
SendErrUncounted(c, blk, err) ==
    /\ max_detected_bytes' = [max_detected_bytes EXCEPT
                                ![c] = LearnedCeiling(blk.total_bytes)]
    /\ max_unix_datagram_bytes' = LearnedCeiling(blk.total_bytes)
    /\ log' = [log EXCEPT ![c] = Append(@, Event("write", blk, 0, err))]
    /\ UNCHANGED <<bytes_written, packets_sent, request_failure>>

\* Mutant: the ceiling learnt by one child is the ceiling of every child.
SendErrSharedCeiling(c, blk, err) ==
    /\ max_detected_bytes' = [d \in Children |-> LearnedCeiling(blk.total_bytes)]
    /\ max_unix_datagram_bytes' = LearnedCeiling(blk.total_bytes)
    /\ request_failure' = [request_failure EXCEPT ![err] = @ + 1]
    /\ log' = [log EXCEPT ![c] = Append(@, Event("write", blk, 0, err))]
    /\ UNCHANGED <<bytes_written, packets_sent>>

\* socket.send(&blk.bytes).await returned Err(err).
SendErr(c, blk, err) ==
    /\ max_detected_bytes' = [max_detected_bytes EXCEPT
                                ![c] = LearnedCeiling(blk.total_bytes)]
    /\ max_unix_datagram_bytes' = LearnedCeiling(blk.total_bytes)
    /\ request_failure' = [request_failure EXCEPT ![err] = @ + 1]
    /\ log' = [log EXCEPT ![c] = Append(@, Event("write", blk, 0, err))]
    /\ UNCHANGED <<bytes_written, packets_sent>>

\* Mutant: a block written in part is put back to be sent again.
SendDoneRetries(c) ==
    /\ pc[c] = "send"
    /\ LET blk == inflight[c][1]
       IN \/ \E n \in 1..blk.total_bytes :
                /\ SendOk(c, blk, n)
                /\ buffered' = [buffered EXCEPT ![c] =
                                  IF n < blk.total_bytes THEN <<blk>> ELSE @]
          \/ /\ \E err \in SendErrors : SendErr(c, blk, err)
             /\ UNCHANGED buffered
    /\ inflight' = [inflight EXCEPT ![c] = <<>>]
    /\ pc' = [pc EXCEPT ![c] = "peek"]
    /\ UNCHANGED <<config, sideVars, buildVars, serVars, parentVars, shutdown, result, startup_rx,
                   cacheVars, total_bytes, tokens, connection_failure>>

\* The send is over; the loop goes back to the peek.
SendDone(c) ==
    /\ pc[c] = "send"
    /\ LET blk == inflight[c][1]
       IN \/ \E n \in 1..blk.total_bytes : SendOk(c, blk, n)
          \/ \E err \in SendErrors : SendErr(c, blk, err)
    /\ inflight' = [inflight EXCEPT ![c] = <<>>]
    /\ pc' = [pc EXCEPT ![c] = "peek"]
    /\ UNCHANGED <<config, sideVars, buildVars, serVars, parentVars, shutdown, result, startup_rx,
                   cacheVars, buffered, total_bytes, tokens, connection_failure>>

ChildStep(c) ==
    \/ StartupRecv(c)
    \/ Connect(c)
    \/ ConnectSleep(c)
    \/ Peek(c)
    \/ ThrottleBranch(c)
    \/ ShutdownBranch(c)
    \/ SendDone(c)

ProducerStep(c) ==
    \/ Produce(c)
    \/ ProducerSendFails(c)
    \/ ProducerFails(c)

Next ==
    \/ New
    \/ StartupSend
    \/ SpinShutdownRecv
    \/ SpinJoin
    \/ Shutdown
    \/ Tick
    \/ \E c \in Children : ChildStep(c)
    \/ \E c \in Children : ProducerStep(c)

Spec == Init /\ [][Next]_vars

\* A generator of at most one connection: the send loop of one child.
InitOne == Init /\ config.parallel_connections <= 1

SpecOne == InitOne /\ [][Next]_vars

\* The generator with producers that emit one block between them: the
\* startup, the connect loop and the join of all the children.
NextFew ==
    \/ New
    \/ StartupSend
    \/ SpinShutdownRecv
    \/ SpinJoin
    \/ Shutdown
    \/ Tick
    \/ \E c \in Children : ChildStep(c)
    \/ \E c \in Children : TotalEmitted = 0 /\ Produce(c)
    \/ \E c \in Children : ProducerSendFails(c)
    \/ \E c \in Children : ProducerFails(c)

SpecFew == Init /\ [][NextFew]_vars

\* Configured byte quantities of more than 32 bits.
Quantities == 0..(U32Modulus + 1)

\* A generator of at most one connection over every configured rate and
\* cache size.
InitWide ==
    /\ config \in [parallel_connections : 0..1,
                   bytes_per_second : Quantities,
                   maximum_prebuild_cache_size_bytes : Quantities]
    /\ InitGenerator
    /\ caller = "new"
    /\ InitBuild
    /\ NoSerialize
    /\ NoSide

SpecWide == InitWide /\ [][NextFew]_vars

\* The children are tokio tasks: a child that can go on is polled.
FairFew == SpecFew /\ \A c \in Children : WF_vars(ChildStep(c))

(* ---------------------- block cache construction ---------------------- *)

\* StdRng::from_seed(seed): the rng stands at the start of the seed's stream.
FromSeed == 0

\* The rng at position n of the stream st can yield v: the value recorded
\* when the position was first read, or any value if it was never read.
Yields(st, n, v) == IF n < Len(st) THEN v = st[n + 1] ELSE v \in DrawValues
\* The stream once position n has been read as v.
Revealed(st, n, v) == IF n < Len(st) THEN st ELSE Append(st, v)

\* The candidate size chosen from the block-size set S with the value v.
Pick(S, v) ==
    CHOOSE x \in S : Cardinality({y \in S : y < x}) = v % Cardinality(S)

\* Bytes a serializer appends when given max_bytes = size and entropy w: at
\* most max_bytes, and none if its smallest message does not fit.
SerializedLen(size, w) == IF size > w THEN size - w ELSE 0

RECURSIVE SumBytes(_)
SumBytes(q) ==
    IF q = <<>> THEN 0 ELSE q[1].total_bytes + SumBytes(Tail(q))

\* block::Cache::fixed(&mut rng, total_bytes, &block_sizes, ..) is called:
\* the budget is the whole of total_bytes; no block size fits it:
\* EmptyBlockSet.
FixedCall(budget) ==
    /\ passes' = Append(passes, [start |-> rng, end |-> -1])
    /\ blocks' = <<>>
    /\ IF \A x \in config.block_sizes : x > budget
       THEN cpc' = "failed" /\ UNCHANGED remaining
       ELSE cpc' = "fixed" /\ remaining' = budget

\* Mutant: a candidate larger than what remains is serialized all the same.
FixedStepNoReject ==
    /\ cpc = "fixed"
    /\ remaining > 0
    /\ rng + 2 <= MaxDraws
    /\ \E v, w \in DrawValues :
         LET st1 == Revealed(seed_stream, rng, v)
             size == Pick(config.block_sizes, v)
             len == SerializedLen(size, w)
         IN /\ Yields(seed_stream, rng, v)
            /\ Yields(st1, rng + 1, w)
            /\ rng' = rng + 2
            /\ seed_stream' = Revealed(st1, rng + 1, w)
            /\ IF len = 0
               THEN UNCHANGED <<blocks, remaining>>
               ELSE /\ blocks' = Append(blocks, [total_bytes |-> len, bytes |-> w])
                    /\ remaining' = IF len > remaining THEN 0 ELSE remaining - len
    /\ UNCHANGED <<config, sideVars, serVars, generatorVars, caller, cpc, block_cache, passes,
                   total_generated_bytes>>

\* One pass of the construction loop, while remaining > 0: choose a
\* candidate size; reject it if it exceeds what remains; else serialize
\* with max_bytes the candidate, abandon the candidate if nothing was
\* written, else append the block and take its length from remaining.
FixedStep ==
    /\ cpc = "fixed"
    /\ remaining > 0
    /\ rng + 2 <= MaxDraws
    /\ \E v \in DrawValues :
         LET st1 == Revealed(seed_stream, rng, v)
             size == Pick(config.block_sizes, v)
         IN /\ Yields(seed_stream, rng, v)
            /\ IF size > remaining
               THEN /\ rng' = rng + 1
                    /\ seed_stream' = st1
                    /\ UNCHANGED <<blocks, remaining>>
               ELSE \E w \in DrawValues :
                      LET len == SerializedLen(size, w)
                      IN /\ Yields(st1, rng + 1, w)
                         /\ rng' = rng + 2
                         /\ seed_stream' = Revealed(st1, rng + 1, w)
                         /\ IF len = 0
                            THEN UNCHANGED <<blocks, remaining>>
                            ELSE /\ blocks' = Append(blocks,
                                        [total_bytes |-> len, bytes |-> w])
                                 /\ remaining' = remaining - len
    /\ UNCHANGED <<config, sideVars, serVars, generatorVars, caller, cpc, block_cache, passes,
                   total_generated_bytes>>

\* Mutant: the construction returns with its first block.
FixedReturnEarly ==
    /\ cpc = "fixed"
    /\ blocks # <<>>
    /\ block_cache' = Append(block_cache, [method |-> "Fixed", blocks |-> blocks])
    /\ passes' = [passes EXCEPT ![Len(passes)].end = rng]
    /\ cpc' = "build"
    /\ UNCHANGED <<config, sideVars, serVars, generatorVars, caller, seed_stream, rng, remaining,
                   blocks, total_generated_bytes>>

\* remaining is 0: the construction returns Cache::Fixed { blocks, idx: 0 }.
FixedReturn ==
    /\ cpc = "fixed"
    /\ remaining = 0
    /\ block_cache' = Append(block_cache, [method |-> "Fixed", blocks |-> blocks])
    /\ passes' = [passes EXCEPT ![Len(passes)].end = rng]
    /\ cpc' = "build"
    /\ UNCHANGED <<config, sideVars, serVars, generatorVars, caller, seed_stream, rng, remaining,
                   blocks, total_generated_bytes>>

\* let mut rng = StdRng::from_seed(seed), in new and in generate_and_check.
SeedRng ==
    /\ cpc = "seed"
    /\ rng' = FromSeed
    /\ cpc' = "build"
    /\ UNCHANGED <<config, sideVars, serVars, generatorVars, caller, seed_stream, remaining,
                   blocks, block_cache, passes, total_generated_bytes>>

\* Mutant: every pass of the loop makes its rng anew from config.seed.
NewPassReseeds ==
    /\ caller = "new"
    /\ cpc = "build"
    /\ IF Len(block_cache) < config.parallel_connections
       THEN IF config.block_cache_method = "Streaming"
            THEN /\ block_cache' = Append(block_cache,
                        [method |-> "Streaming", rng |-> FromSeed])
                 /\ UNCHANGED <<cpc, rng, remaining, blocks, passes>>
            ELSE /\ rng' = FromSeed
                 /\ passes' = Append(passes, [start |-> FromSeed, end |-> -1])
                 /\ blocks' = <<>>
                 /\ cpc' = "fixed"
                 /\ remaining' = config.maximum_prebuild_cache_size_bytes
                 /\ UNCHANGED block_cache
       ELSE /\ cpc' = "constructed"
            /\ UNCHANGED <<rng, remaining, blocks, block_cache, passes>>
    /\ UNCHANGED <<config, sideVars, serVars, generatorVars, caller, seed_stream,
                   total_generated_bytes>>

\* One pass of `for _ in 0..config.parallel_connections` in new, up to the
\* block cache: Streaming hands config.seed to the cache, whose producer
\* makes its own rng from it; Fixed builds the cache with new's rng.
NewPass ==
    /\ caller = "new"
    /\ cpc = "build"
    /\ IF Len(block_cache) < config.parallel_connections
       THEN IF config.block_cache_method = "Streaming"
            THEN /\ block_cache' = Append(block_cache,
                        [method |-> "Streaming", rng |-> FromSeed])
                 /\ UNCHANGED <<cpc, remaining, blocks, passes>>
            ELSE /\ FixedCall(config.maximum_prebuild_cache_size_bytes)
                 /\ UNCHANGED block_cache
       ELSE /\ cpc' = "constructed"
            /\ UNCHANGED <<remaining, blocks, block_cache, passes>>
    /\ UNCHANGED <<config, sideVars, serVars, generatorVars, caller, seed_stream, rng,
                   total_generated_bytes>>

\* generate_and_check: block::Cache::fixed(&mut rng, total_bytes, ..)?
GenerateAndCheckFixed ==
    /\ caller = "generate_and_check"
    /\ cpc = "build"
    /\ block_cache = <<>>
    /\ FixedCall(config.maximum_prebuild_cache_size_bytes)
    /\ UNCHANGED <<config, sideVars, serVars, generatorVars, caller, seed_stream, rng,
                   block_cache, total_generated_bytes>>

\* total_generated_bytes += block.total_bytes.get(), over the blocks, in u32.
RECURSIVE SumU32(_, _)
SumU32(acc, q) ==
    IF q = <<>> THEN acc
    ELSE SumU32((acc + q[1].total_bytes) % U32Modulus, Tail(q))

\* generate_and_check: the sum over the blocks, the comparison with
\* total_bytes (which only warns), Ok(()).
GenerateAndCheckSum ==
    /\ caller = "generate_and_check"
    /\ cpc = "build"
    /\ block_cache # <<>>
    /\ total_generated_bytes' = SumU32(0, block_cache[1].blocks)
    /\ cpc' = "done"
    /\ UNCHANGED <<config, sideVars, serVars, generatorVars, caller, seed_stream, rng, remaining,
                   blocks, block_cache, passes>>

NextBuild ==
    \/ SeedRng
    \/ NewPass
    \/ GenerateAndCheckFixed
    \/ FixedStep
    \/ FixedReturn
    \/ GenerateAndCheckSum

\* The configurations of a cache construction: every budget, block-size
\* set and cache method, for several children.
InitBuildConfig ==
    /\ config \in [parallel_connections : {MaxChildren},
                   bytes_per_second : {BytesPerSecond},
                   maximum_prebuild_cache_size_bytes : Budgets,
                   block_sizes : SizeSets,
                   block_cache_method : {"Fixed", "Streaming"}]
    /\ InitGenerator
    /\ caller \in {"new", "generate_and_check"}
    /\ InitBuild
    /\ NoSerialize
    /\ NoSide

SpecBuild == InitBuildConfig /\ [][NextBuild]_vars

(* ----------------------- Serialize::to_bytes -------------------------- *)

\* Bounded sequences over a set.
SeqsUpTo(S, n) == UNION {[1..k -> S] : k \in 0..n}

\* The encoding of an empty member (a Vec<Span>): "[]" in JSON, the one
\* byte of an empty array in MsgPack.
EmptyLen(p) == IF p = "TraceAgentJson" THEN 2 ELSE 1

RECURSIVE SumSeq(_)
SumSeq(q) == IF q = <<>> THEN 0 ELSE q[1] + SumSeq(Tail(q))

\* encoding.len() for the members q: JSON puts brackets around and commas
\* between the members' encodings; MsgPack puts the array header before.
EncodingLen(p, q) ==
    IF p = "TraceAgentJson"
    THEN 2 + SumSeq(q) + (IF Len(q) > 0 THEN Len(q) - 1 ELSE 0)
    ELSE (IF Len(q) < 16 THEN 1 ELSE 3) + SumSeq(q)

\* to_bytes is entered.  DogStatsD sets bytes_remaining; TraceAgent fills
\* max_bytes bytes of entropy and takes its members from them, which can
\* fail.
ToBytesCall ==
    /\ spc = "call"
    /\ IF payload = "DogStatsD"
       THEN /\ bytes_remaining' = max_bytes
            /\ spc' = "loop"
            /\ UNCHANGED <<members, high>>
       ELSE \/ \E q \in SeqsUpTo(EmptyLen(payload)..MaxMemberLen,
                                  Min(max_bytes, MaxMembers)) :
                  /\ members' = q
                  /\ high' = Len(q)
                  /\ spc' = "loop"
                  /\ UNCHANGED bytes_remaining
            \/ /\ spc' = "err"
               /\ UNCHANGED <<bytes_remaining, members, high>>
    /\ UNCHANGED <<config, sideVars, generatorVars, buildVars, payload, max_bytes, writer>>

\* Mutant: the newline is not counted in line_length.
DogStatsDLoopNoNewline ==
    /\ spc = "loop"
    /\ payload = "DogStatsD"
    /\ \E len \in 1..MaxMemberLen :
         LET line_length == len
         IN IF bytes_remaining >= line_length
            THEN /\ writer' = writer + len + 1
                 /\ bytes_remaining' = bytes_remaining - line_length
                 /\ UNCHANGED spc
            ELSE /\ spc' = "ok"
                 /\ UNCHANGED <<writer, bytes_remaining>>
    /\ UNCHANGED <<config, sideVars, generatorVars, buildVars, payload, max_bytes,
                   members, high>>

\* One pass of DogStatsD's loop: a member is generated and formatted;
\* line_length is its length and the newline; if bytes_remaining covers
\* it the line is written (which can fail), else the loop ends with Ok.
DogStatsDLoop ==
    /\ spc = "loop"
    /\ payload = "DogStatsD"
    /\ \E len \in 1..MaxMemberLen :
         LET line_length == len + 1
         IN IF bytes_remaining >= line_length
            THEN \/ /\ writer' = writer + len + 1
                    /\ bytes_remaining' = bytes_remaining - line_length
                    /\ UNCHANGED spc
                 \/ /\ spc' = "err"
                    /\ UNCHANGED <<writer, bytes_remaining>>
            ELSE /\ spc' = "ok"
                 /\ UNCHANGED <<writer, bytes_remaining>>
    /\ UNCHANGED <<config, sideVars, generatorVars, buildVars, payload, max_bytes,
                   members, high>>

\* One pass of TraceAgent's loop: members[low..high] is encoded; an
\* encoding longer than max_bytes halves high, any other is written and
\* the loop ends with Ok.  The ? of the pass fail on a member that cannot
\* be encoded or on the write; the encoding of no member at all ("[]", the
\* empty array header) has nothing that fails.
TraceAgentLoop ==
    /\ spc = "loop"
    /\ payload # "DogStatsD"
    /\ LET encoding == EncodingLen(payload, SubSeq(members, 1, high))
       IN \/ IF encoding > max_bytes
             THEN /\ high' = high \div 2
                  /\ UNCHANGED <<writer, spc>>
             ELSE /\ writer' = writer + encoding
                  /\ spc' = "ok"
                  /\ UNCHANGED high
          \/ /\ high > 0 \/ encoding <= max_bytes
             /\ spc' = "err"
             /\ UNCHANGED <<writer, high>>
    /\ UNCHANGED <<config, sideVars, generatorVars, buildVars, payload, max_bytes,
                   bytes_remaining, members>>

NextSerialize ==
    \/ ToBytesCall
    \/ DogStatsDLoop
    \/ TraceAgentLoop

\* One call of to_bytes on an empty writer.
InitToBytes ==
    /\ config = [parallel_connections |-> 0,
                 bytes_per_second |-> BytesPerSecond,
                 maximum_prebuild_cache_size_bytes |-> 0]
    /\ InitGenerator
    /\ caller = "new"
    /\ InitBuild
    /\ InitSerialize
    /\ NoSide

SpecSerialize == InitToBytes /\ [][NextSerialize]_vars

\* to_bytes runs on the caller's thread without a suspension point: a pass
\* of the loop that can be taken is taken.
FairSerialize == SpecSerialize /\ WF_vars(NextSerialize)

(* ------------------------- ConfRange::sample -------------------------- *)

\* rng.gen_range(lo..hi): the values it can return, those of the
\* half-open range; it panics when the range is empty.
GenRange(lo, hi) == lo..(hi - 1)

\* sample of Constant(c): c.
SampleConstant ==
    /\ sample.st = "call"
    /\ conf_range.kind = "Constant"
    /\ sample' = [st |-> "ok", v |-> conf_range.c]
    /\ UNCHANGED <<besideSample, conf_range>>

\* sample of Inclusive { min, max } returning v: gen_range(min..max).
SampleInclusive(v) ==
    /\ sample.st = "call"
    /\ conf_range.kind = "Inclusive"
    /\ v \in GenRange(conf_range.min, conf_range.max)
    /\ sample' = [st |-> "ok", v |-> v]
    /\ UNCHANGED <<besideSample, conf_range>>

\* sample of Inclusive { min, max } with nothing to return: gen_range
\* panics.
SamplePanics ==
    /\ sample.st = "call"
    /\ conf_range.kind = "Inclusive"
    /\ GenRange(conf_range.min, conf_range.max) = {}
    /\ sample' = [st |-> "panic", v |-> 0]
    /\ UNCHANGED <<besideSample, conf_range>>

NextSample ==
    \/ SampleConstant
    \/ \E v \in 0..MaxRange : SampleInclusive(v)
    \/ SamplePanics

InitSampleCall ==
    /\ config = [parallel_connections |-> 0, bytes_per_second |-> 0,
                 maximum_prebuild_cache_size_bytes |-> 0]
    /\ InitGenerator
    /\ caller = "new"
    /\ InitBuild
    /\ NoSerialize
    /\ InitSample
    /\ NoHec
    /\ NoRun
    /\ NoTool
    /\ NoConf

SpecSample == InitSampleCall /\ [][NextSample]_vars

(* ----------------------- the Splunk HEC blackhole --------------------- *)

EventPaths == {"/services/collector/event", "/services/collector/raw"}
AckPath == "/services/collector/ack"

\* A request body: bytes that are no JSON, a JSON object without acks, or
\* a JSON object whose acks is a list, of ids or with an item that is no
\* u64 (-1).
Bodies ==
    {[kind |-> k, acks |-> <<>>] : k \in {"not_json", "no_acks"}}
        \cup {[kind |-> "acks", acks |-> q] :
                 q \in SeqsUpTo(0..MaxAckId, MaxAcks) \cup {<<-1>>, <<0, -1>>}}

\* The requests of clients that use the ack path; one of them with a
\* Content-Encoding that cannot be decoded.
AckRequests ==
    [method : {"POST"}, path : {AckPath}, content_encoding : {"identity"},
     body : Bodies]
        \cup {[method |-> "POST", path |-> AckPath,
                content_encoding |-> "unsupported",
                body |-> [kind |-> "acks", acks |-> <<0>>]]}

\* The requests of clients that use every route: the event paths, the ack
\* path, a route srv does not know, an event with a Content-Encoding that
\* cannot be decoded.
RouteRequests ==
    LET Req(m, p, e) == [method |-> m, path |-> p, content_encoding |-> e,
                         body |-> [kind |-> "acks", acks |-> <<0>>]]
    IN {Req("POST", "/services/collector/event", "identity"),
        Req("POST", "/services/collector/raw", "identity"),
        Req("POST", AckPath, "identity"),
        Req("GET", "/services/collector/event", "identity"),
        Req("POST", "/services/collector/event", "unsupported")}

\* codec::decode: Ok(body) unless the Content-Encoding cannot be decoded.
Decodes(req) == req.content_encoding = "identity"

\* serde_json::from_slice::<HecAckRequest>: Ok for a JSON object with a
\* field acks that is a list of u64.
FromSlice(body) ==
    /\ body.kind = "acks"
    /\ \A i \in 1..Len(body.acks) : body.acks[i] >= 0

\* The map misses the id asked about last.
HecAckResponseFromFront(acks) ==
    [id \in {acks[i] : i \in 1..(Len(acks) - 1)} |-> TRUE]

\* HecAckResponse::from: the ids collected into a map, each with true.
HecAckResponseFrom(acks) == [id \in {acks[i] : i \in 1..Len(acks)} |-> TRUE]

IsEventPost(req) == req.method = "POST" /\ req.path \in EventPaths
IsAckPost(req) == req.method = "POST" /\ req.path = AckPath

\* The counter is read and left as it is.
FetchAddNothing(id) == id

\* ACK_ID.fetch_add(1): the value stored; the value returned is the old one.
FetchAdd(id) == id + 1

\* The n-th answer of srv, to a request whose body was collected, the
\* counter being at id.
SrvResponse(n, req, id) ==
    IF ~Decodes(req) THEN Answer(n, req, "codec", <<>>, NoAcks)
    ELSE IF IsEventPost(req) THEN Answer(n, req, "OK", <<id>>, NoAcks)
    ELSE IF IsAckPost(req)
    THEN IF FromSlice(req.body)
         THEN Answer(n, req, "OK", <<>>, HecAckResponseFrom(req.body.acks))
         ELSE Answer(n, req, "BAD_REQUEST", <<>>, NoAcks)
    ELSE Answer(n, req, "OK", <<>>, NoAcks)

\* The counter after srv answered the request.
SrvAckId(req, id) ==
    IF Decodes(req) /\ IsEventPost(req) THEN FetchAdd(id) ELSE id

\* TcpListener::bind and Semaphore::new.
HecBind ==
    /\ hec_pc = "bind"
    /\ \/ /\ hec_pc' = "select"
          /\ sem' = hec_config.concurrent_requests_max
       \/ /\ hec_pc' = "err_io"
          /\ UNCHANGED sem
    /\ UNCHANGED <<besideHec, accept_errors, hec_config, hec_shutdown, ACK_ID, conn, request,
                   requests_received, answered, ack_ids>>

\* The shutdown signal fires.
HecSignal ==
    /\ hec_pc \in {"bind", "select"}
    /\ ~hec_shutdown
    /\ hec_shutdown' = TRUE
    /\ UNCHANGED <<besideHec, accept_errors, hec_config, hec_pc, ACK_ID, sem, conn, request,
                   requests_received, answered, ack_ids>>

\* select!: the shutdown branch; the loop is left.
HecShutdownBranch ==
    /\ hec_pc = "select"
    /\ hec_shutdown
    /\ hec_pc' = "drain"
    /\ UNCHANGED <<besideHec, accept_errors, hec_config, hec_shutdown, ACK_ID, sem, conn,
                   request, requests_received, answered, ack_ids>>

\* select!: listener.accept() returned an error, which is logged; continue.
HecAcceptError ==
    /\ hec_pc = "select"
    /\ accept_errors < MaxAcceptErrors
    /\ accept_errors' = accept_errors + 1
    /\ UNCHANGED <<besideHec, hec_config, hec_pc, hec_shutdown, ACK_ID, sem,
                   conn, request, requests_received, answered, ack_ids>>

\* select!: listener.accept() returned a connection; its task is spawned.
HecAccept(k) ==
    /\ hec_pc = "select"
    /\ conn[k] = "none"
    /\ \A j \in 1..(k - 1) : conn[j] # "none"
    /\ conn' = [conn EXCEPT ![k] = "acquire"]
    /\ UNCHANGED <<besideHec, accept_errors, hec_config, hec_pc, hec_shutdown, ACK_ID, sem,
                   request, requests_received, answered, ack_ids>>

\* sem.acquire_owned().await completes: a permit is taken.
HecAcquire(k) ==
    /\ conn[k] = "acquire"
    /\ sem > 0
    /\ sem' = sem - 1
    /\ conn' = [conn EXCEPT ![k] = "serving"]
    /\ UNCHANGED <<besideHec, accept_errors, hec_config, hec_pc, hec_shutdown, ACK_ID,
                   request, requests_received, answered, ack_ids>>

\* srv is called with a request: requests_received, then the body is
\* awaited.
SrvCollect(k, req) ==
    /\ conn[k] = "serving"
    /\ request[k] = NoRequest
    /\ requests_received < MaxRequests
    /\ requests_received' = requests_received + 1
    /\ request' = [request EXCEPT ![k] = req]
    /\ UNCHANGED <<besideHec, accept_errors, hec_config, hec_pc, hec_shutdown, ACK_ID, sem,
                   conn, answered, ack_ids>>

\* The connection's task leaks the permit it holds.
ServeDoneLeaks(k, how) ==
    /\ conn[k] = "serving"
    /\ how = "ok" => request[k] = NoRequest
    /\ conn' = [conn EXCEPT ![k] = how]
    /\ request' = [request EXCEPT ![k] = NoRequest]
    /\ sem' = IF how = "error" THEN sem ELSE sem + 1
    /\ UNCHANGED <<besideHec, accept_errors, hec_config, hec_pc, hec_shutdown, ACK_ID,
                   requests_received, answered, ack_ids>>

\* serve_future ends, with Ok once the client is done or with an error at
\* any time (a request srv works on is then dropped); drop(permit).
ServeDone(k, how) ==
    /\ conn[k] = "serving"
    /\ how = "ok" => request[k] = NoRequest
    /\ conn' = [conn EXCEPT ![k] = how]
    /\ request' = [request EXCEPT ![k] = NoRequest]
    /\ sem' = sem + 1
    /\ UNCHANGED <<besideHec, accept_errors, hec_config, hec_pc, hec_shutdown, ACK_ID,
                   requests_received, answered, ack_ids>>

\* The body was collected: srv decodes it, matches the route and answers.
SrvRespond(k) ==
    /\ conn[k] = "serving"
    /\ request[k] # NoRequest
    /\ ACK_ID' = SrvAckId(request[k], ACK_ID)
    /\ answered' = SrvResponse(answered.n + 1, request[k], ACK_ID)
    /\ ack_ids' = ack_ids \o answered'.resp.ack_id
    /\ request' = [request EXCEPT ![k] = NoRequest]
    /\ UNCHANGED <<besideHec, accept_errors, hec_config, hec_pc, hec_shutdown, sem, conn,
                   requests_received>>

\* Mutant: run returns without awaiting the tasks of the join set.
HecJoinEarly ==
    /\ hec_pc = "drain"
    /\ hec_pc' = "done"
    /\ UNCHANGED <<besideHec, accept_errors, hec_config, hec_shutdown, ACK_ID, sem, conn,
                   request, requests_received, answered, ack_ids>>

\* while join_set.join_next().await.is_some() {}: every task has finished.
HecJoin ==
    /\ hec_pc = "drain"
    /\ \A k \in Conns : conn[k] \in {"none", "ok", "error"}
    /\ hec_pc' = "done"
    /\ UNCHANGED <<besideHec, accept_errors, hec_config, hec_shutdown, ACK_ID, sem, conn,
                   request, requests_received, answered, ack_ids>>

\* The blackhole without its clients' requests, on a listener whose accept
\* does not fail.
NextRun ==
    \/ HecBind
    \/ HecSignal
    \/ HecShutdownBranch
    \/ \E k \in Conns : HecAccept(k)
    \/ \E k \in Conns : HecAcquire(k)
    \/ \E k \in Conns : \E how \in {"ok", "error"} : ServeDone(k, how)
    \/ \E k \in Conns : SrvRespond(k)
    \/ HecJoin

\* The blackhole with clients that use every route.
NextHec ==
    \/ NextRun
    \/ \E k \in Conns : \E req \in RouteRequests : SrvCollect(k, req)

\* The blackhole with clients that use the ack path.
NextHecAck ==
    \/ NextRun
    \/ \E k \in Conns : \E req \in AckRequests : SrvCollect(k, req)

InitHecRun ==
    /\ config = [parallel_connections |-> 0, bytes_per_second |-> 0,
                 maximum_prebuild_cache_size_bytes |-> 0]
    /\ InitGenerator
    /\ caller = "new"
    /\ InitBuild
    /\ NoSerialize
    /\ NoSample
    /\ InitHec
    /\ NoRun
    /\ NoTool
    /\ NoConf

SpecHec == InitHecRun /\ [][NextHec]_vars

\* One connection at a time is enough for what one request is answered.
InitHecAck == InitHecRun /\ hec_config.concurrent_requests_max = 1

SpecHecAck == InitHecAck /\ [][NextHecAck]_vars

\* The blackhole on a listener whose accept can fail, with clients that
\* post events.
NextHecRun ==
    \/ NextRun
    \/ HecAcceptError
    \/ \E k \in Conns :
          \E req \in {r \in RouteRequests : Decodes(r) /\ IsEventPost(r)} :
             SrvCollect(k, req)

SpecHecRun == InitHecRun /\ [][NextHecRun]_vars

\* run and the connection tasks are tokio tasks that are polled when they
\* can go on; every connection is closed by its client or ends in an error.
FairHec ==
    /\ SpecHecRun
    /\ WF_vars(HecBind)
    /\ WF_vars(HecShutdownBranch)
    /\ WF_vars(HecJoin)
    /\ \A k \in Conns : WF_vars(HecAcquire(k))
    /\ \A k \in Conns : WF_vars(SrvRespond(k))
    /\ \A k \in Conns : WF_vars(\E how \in {"ok", "error"} : ServeDone(k, how))

(* ----------------------- generator::Server::run ----------------------- *)

\* The target sends its PID on the pid channel.
PidSend(p) ==
    /\ pid_sender = "live"
    /\ pid_channel = <<>>
    /\ pid_received = "none"
    /\ pid_channel' = <<p>>
    /\ UNCHANGED <<besideRun, server, pid_sender, pid_received, run_pc,
                   run_result>>

\* The sender of the pid channel is dropped.
PidDrop ==
    /\ pid_sender = "live"
    /\ pid_sender' = "dropped"
    /\ UNCHANGED <<besideRun, server, pid_channel, pid_received, run_pc,
                   run_result>>

\* What pid_snd.recv().await returns: the PID sent, or an error once the
\* channel is empty and its sender dropped.
Recv(ch, sender) ==
    IF ch # <<>> THEN "Ok" ELSE IF sender = "dropped" THEN "Closed" ELSE "none"

\* let _ = pid_snd.recv().await; drop(pid_snd): whatever recv() returned,
\* the sub-server's spin is called next.
RunRecv ==
    /\ run_pc = "recv"
    /\ Recv(pid_channel, pid_sender) # "none"
    /\ pid_received' = Recv(pid_channel, pid_sender)
    /\ pid_channel' = <<>>
    /\ run_pc' = "spin"
    /\ UNCHANGED <<besideRun, server, pid_sender, run_result>>

\* inner.spin().await returns; run returns its result, the error wrapped
\* in the variant's Error.
RunSpin(res) ==
    /\ run_pc = "spin"
    /\ run_pc' = "returned"
    /\ run_result' = res
    /\ UNCHANGED <<besideRun, server, pid_sender, pid_channel, pid_received>>

NextServerRun ==
    \/ \E p \in 1..MaxPid : PidSend(p)
    \/ PidDrop
    \/ RunRecv
    \/ \E res \in {"Ok", "Err"} : RunSpin(res)

InitServerRun ==
    /\ config = [parallel_connections |-> 0, bytes_per_second |-> 0,
                 maximum_prebuild_cache_size_bytes |-> 0]
    /\ InitGenerator
    /\ caller = "new"
    /\ InitBuild
    /\ NoSerialize
    /\ NoSample
    /\ NoHec
    /\ InitRun
    /\ NoTool
    /\ NoConf

SpecServerRun == InitServerRun /\ [][NextServerRun]_vars

(* ------------------------------ payloadtool --------------------------- *)

\* The ids generators carry; "none" is a generator without id.
GeneratorIds == {"none", "a", "b"}

\* A generator of the configuration, as far as check_generator looks at it:
\* its id, its variant, and what the construction of its block cache comes
\* to: a cache of exactly the requested bytes, one of fewer bytes, an error,
\* or none because the requested size is zero as a u32.
ToolGenerators ==
    [id : GeneratorIds, inner : {"UnixDatagram"},
     cache : {"exact", "short", "error", "zero"}]
        \cup [id : GeneratorIds, inner : {"Http"}, cache : {"exact"}]

\* payloadtool is started: any generator_id, any file.
InitTool ==
    /\ args \in [generator_id : GeneratorIds]
    /\ file \in {"unreadable", "read_error", "bad_yaml", "ok"}
    /\ generators \in SeqsUpTo(ToolGenerators, MaxGenerators)
    /\ file # "ok" => generators = <<>>
    /\ tool_pc = "open"
    /\ generator = 0
    /\ warnings = 0
    /\ tool_result = "none"

\* generate_and_check, a cache of fewer bytes being an error.
GenerateAndCheckStrict(g) == IF g.cache = "exact" THEN "Ok" ELSE "Err(Block)"

\* generate_and_check: the error of Cache::fixed, else Ok, whatever the
\* bytes of the cache add up to.
GenerateAndCheck(g) == IF g.cache = "error" THEN "Err(Block)" ELSE "Ok"

\* check_generator: unimplemented! for the variants without block cache,
\* expect on a zero size, else generate_and_check.
CheckGenerator(g) ==
    IF g.inner # "UnixDatagram" THEN "panic"
    ELSE IF g.cache = "zero" THEN "panic"
    ELSE GenerateAndCheck(g)

\* find: the first generator with the id, 0 if there is none.
Find(gens, id) ==
    IF \E i \in 1..Len(gens) : gens[i].id = id
    THEN CHOOSE i \in 1..Len(gens) :
            /\ gens[i].id = id
            /\ \A j \in 1..(i - 1) : gens[j].id # id
    ELSE 0

\* The file is opened; main panics if it cannot be.
ToolOpen ==
    /\ tool_pc = "open"
    /\ IF file = "unreadable"
       THEN tool_pc' = "done" /\ tool_result' = "panic"
       ELSE tool_pc' = "read" /\ UNCHANGED tool_result
    /\ UNCHANGED <<besideTool, args, file, generators, generator, warnings>>

\* file.read_to_string(&mut contents)?
ToolRead ==
    /\ tool_pc = "read"
    /\ IF file = "read_error"
       THEN tool_pc' = "done" /\ tool_result' = "Err(Io)"
       ELSE tool_pc' = "parse" /\ UNCHANGED tool_result
    /\ UNCHANGED <<besideTool, args, file, generators, generator, warnings>>

\* serde_yaml::from_str(&contents)?
ToolParse ==
    /\ tool_pc = "parse"
    /\ IF file = "bad_yaml"
       THEN tool_pc' = "done" /\ tool_result' = "Err(Deserialize)"
       ELSE tool_pc' = "select" /\ UNCHANGED tool_result
    /\ UNCHANGED <<besideTool, args, file, generators, generator, warnings>>

\* if let Some(generator_id): the generator with that id is looked for;
\* else the loop over all generators begins.
ToolSelect ==
    /\ tool_pc = "select"
    /\ IF args.generator_id # "none"
       THEN /\ generator' = Find(generators, args.generator_id)
            /\ IF generator' = 0
               THEN tool_pc' = "done" /\ tool_result' = "Err(InvalidArgs)"
               ELSE tool_pc' = "check_one" /\ UNCHANGED tool_result
       ELSE /\ generator' = 1
            /\ IF generators = <<>>
               THEN tool_pc' = "done" /\ tool_result' = "Ok"
               ELSE tool_pc' = "check_all" /\ UNCHANGED tool_result
    /\ UNCHANGED <<besideTool, args, file, generators, warnings>>

\* check_generator(generator)?: a failure ends main; after the generator
\* that was asked for, or the last one, main returns Ok.
ToolCheck ==
    /\ tool_pc \in {"check_one", "check_all"}
    /\ LET g == generators[generator]
           res == CheckGenerator(g)
       IN /\ warnings' = IF res = "Ok" /\ g.cache = "short"
                         THEN warnings + 1 ELSE warnings
          /\ IF res # "Ok"
             THEN /\ tool_pc' = "done"
                  /\ tool_result' = res
                  /\ UNCHANGED generator
             ELSE IF tool_pc = "check_one" \/ generator = Len(generators)
             THEN /\ tool_pc' = "done"
                  /\ tool_result' = "Ok"
                  /\ UNCHANGED generator
             ELSE /\ generator' = generator + 1
                  /\ UNCHANGED <<tool_pc, tool_result>>
    /\ UNCHANGED <<besideTool, args, file, generators>>

NextTool ==
    \/ ToolOpen
    \/ ToolRead
    \/ ToolParse
    \/ ToolSelect
    \/ ToolCheck

InitPayloadtool ==
    /\ config = [parallel_connections |-> 0, bytes_per_second |-> 0,
                 maximum_prebuild_cache_size_bytes |-> 0]
    /\ InitGenerator
    /\ caller = "new"
    /\ InitBuild
    /\ NoSerialize
    /\ NoSample
    /\ NoHec
    /\ NoRun
    /\ InitTool
    /\ NoConf

SpecTool == InitPayloadtool /\ [][NextTool]_vars

(* ------------------- deserializing a configuration -------------------- *)

\* The largest u16.
U16Max == 65535

\* A field that is given, with its value.
Given(v) == <<v>>

\* The telemetry of a document: absent, Prometheus, Log, or Prometheus
\* without its global_labels.
Telemetries ==
    {TelemetryOf(Absent, Absent, Absent),
     TelemetryOf(Given("127.0.0.1:9001"), Absent, Given("labels")),
     TelemetryOf(Absent, Given("/tmp/capture"), Given("labels")),
     TelemetryOf(Given("127.0.0.1:9001"), Absent, Absent)}

\* A generator of a document, of the unix_datagram variant: its id and
\* the fields that have a default, each absent or given.  The required
\* fields are there.
GeneratorOf(id, method, connections, sizes, throttle) ==
    [id |-> id, block_cache_method |-> method,
     parallel_connections |-> connections, block_sizes |-> sizes,
     throttle |-> throttle]

\* The generators of the documents: none of these fields given, only
\* parallel_connections given, all given, all given with a
\* parallel_connections that is no u16; each with and without id.
GeneratorEntries ==
    {GeneratorOf(id, Absent, c, Absent, Absent) :
        id \in {Absent, Given("a")}, c \in {Absent, Given(2)}}
      \cup
    {GeneratorOf(id, Given("fixed"), c, Given("1 Kb"), Given("stable")) :
        id \in {Absent, Given("a")}, c \in {Given(2), Given(U16Max + 1)}}

\* A blackhole of a document: its id, absent or given.
BlackholeEntries == [id : {Absent, Given("a")}]

Documents ==
    {Document(t, g, b) :
        t \in Telemetries,
        g \in {Absent} \cup {Given(q) : q \in SeqsUpTo(GeneratorEntries, MaxGenerators)},
        b \in {Absent} \cup {Given(q) : q \in SeqsUpTo(BlackholeEntries, MaxGenerators)}}

\* from_str is about to be called on a document.
InitConf ==
    /\ contents \in Documents
    /\ parsed = NotParsed

\* A default that binds the exporter to the loopback address.
DefaultTelemetryLoopback ==
    TelemetryOf(Given("127.0.0.1:9000"), Absent, Given("none"))

\* impl Default for Telemetry: Prometheus at 0.0.0.0:9000, no labels.
DefaultTelemetry ==
    TelemetryOf(Given("0.0.0.0:9000"), Absent, Given("none"))

\* lading_payload::block::default_cache_method.
default_cache_method == "streaming"

default_parallel_connections == 1

\* A field with #[serde(default)]: the value given, else the default.
OrDefault(field, default) == IF field = Absent THEN default ELSE field[1]

\* The untagged enum Telemetry: the fields of Prometheus or those of Log,
\* all of them and no other.
TelemetryFits(t) ==
    /\ t.global_labels # Absent
    /\ (t.prometheus_addr # Absent) # (t.path # Absent)

\* A generator::Config of a unix_datagram generator.
DeserializeGenerator(e) ==
    [general |-> [id |-> e.id],
     block_cache_method |-> OrDefault(e.block_cache_method, default_cache_method),
     parallel_connections |->
        OrDefault(e.parallel_connections, default_parallel_connections),
     block_sizes |-> e.block_sizes,
     throttle |-> OrDefault(e.throttle, "default")]

\* A blackhole::Config.
DeserializeBlackhole(e) == [general |-> [id |-> e.id]]

\* serde_yaml::from_str::<Config>: an error when the telemetry fits no
\* variant or a parallel_connections is no u16; else the Config.
Deserialize(doc) ==
    LET gens == OrDefault(doc.generator, <<>>)
    IN IF \/ doc.telemetry # TelemetryOf(Absent, Absent, Absent)
             /\ ~TelemetryFits(doc.telemetry)
          \/ \E i \in 1..Len(gens) :
                /\ gens[i].parallel_connections # Absent
                /\ gens[i].parallel_connections[1] > U16Max
       THEN [NotParsed EXCEPT !.result = "Err"]
       ELSE [result |-> "Ok",
             telemetry |->
                IF doc.telemetry = TelemetryOf(Absent, Absent, Absent)
                THEN DefaultTelemetry ELSE doc.telemetry,
             generator |-> [i \in 1..Len(gens) |-> DeserializeGenerator(gens[i])],
             blackhole |->
                IF doc.blackhole = Absent THEN Absent
                ELSE Given([i \in 1..Len(doc.blackhole[1]) |->
                              DeserializeBlackhole(doc.blackhole[1][i])])]

\* let config: Config = serde_yaml::from_str(contents)
FromStr ==
    /\ parsed.result = "none"
    /\ parsed' = Deserialize(contents)
    /\ UNCHANGED <<besideConf, contents>>

NextConf == FromStr

InitFromStr ==
    /\ config = [parallel_connections |-> 0, bytes_per_second |-> 0,
                 maximum_prebuild_cache_size_bytes |-> 0]
    /\ InitGenerator
    /\ caller = "new"
    /\ InitBuild
    /\ NoSerialize
    /\ NoSample
    /\ NoHec
    /\ NoRun
    /\ NoTool
    /\ InitConf

SpecConf == InitFromStr /\ [][NextConf]_vars

(* ------------------------------ fairness ------------------------------ *)

\* The runtime polls every task that can run, the producer thread runs,
\* time passes and the driver calls new and spin.  Nothing makes the
\* shutdown signal fire, a connect succeed or a send succeed.  A producer
\* that has emitted its last block of the model ends.
Fairness ==
    /\ WF_vars(New)
    /\ WF_vars(StartupSend)
    /\ WF_vars(SpinShutdownRecv)
    /\ WF_vars(SpinJoin)
    /\ WF_vars(Tick)
    /\ \A c \in Children : WF_vars(ChildStep(c))
    /\ \A c \in Children : WF_vars(Produce(c))
    /\ \A c \in Children : WF_vars(ProducerSendFails(c))
    /\ \A c \in Children : WF_vars(TotalEmitted = MaxBlocks /\ ProducerFails(c))

FairSpec == Init /\ [][Next]_vars /\ Fairness

\* The generator of one connection whose cache makes blocks of one byte.
NextSmall ==
    \/ New
    \/ StartupSend
    \/ SpinShutdownRecv
    \/ SpinJoin
    \/ Shutdown
    \/ Tick
    \/ \E c \in Children : ChildStep(c)
    \/ \E c \in Children :
          Produce(c) /\ emitted'[c][Len(emitted'[c])].total_bytes = 1
    \/ \E c \in Children : ProducerSendFails(c)
    \/ \E c \in Children : ProducerFails(c)

SpecSmall == InitOne /\ [][NextSmall]_vars

\* Several connections whose producers emit two one-byte blocks between
\* them.
NextSeveral ==
    \/ New
    \/ StartupSend
    \/ SpinShutdownRecv
    \/ SpinJoin
    \/ Shutdown
    \/ Tick
    \/ \E c \in Children : ChildStep(c)
    \/ \E c \in Children :
           /\ TotalEmitted <= 1
           /\ Produce(c)
           /\ emitted'[c][Len(emitted'[c])].total_bytes = 1
    \/ \E c \in Children : ProducerSendFails(c)
    \/ \E c \in Children : ProducerFails(c)

SpecSeveral == Init /\ [][NextSeveral]_vars

\* The producer is an OS thread of its own: a send of the thread that has
\* failed is noticed by the thread.
FairProducer == SpecSmall /\ \A c \in Children : WF_vars(ProducerSendFails(c))

(* ------------------------ reading the history ------------------------- *)

IsWrite(e) == e.ev = "write"
FailedWrite(e) == e.ev = "write" /\ e.err # "none"
PartialWrite(e) == e.ev = "write" /\ e.err = "none" /\ e.n < e.blk.total_bytes
Last(q) == q[Len(q)]

\* The startup value has been sent.
StartupSent ==
    \/ ppc \in {"await_shutdown", "join"}
    \/ ppc = "returned" /\ presult # "StartupSend"

\* The child appended an event to its history in this step.
Logged(c) == Len(log'[c]) > Len(log[c])

\* The blocks a child took from its receiver, in the order it took them.
IsTake(e) == e.ev \in {"skip", "next"}
Taken(q) ==
    LET takes == SelectSeq(q, IsTake)
    IN [i \in 1..Len(takes) |-> takes[i].blk]

\* The blocks whose send has returned, in the order of the sends.
Written(q) ==
    LET writes == SelectSeq(q, IsWrite)
    IN [i \in 1..Len(writes) |-> writes[i].blk]

\* The spawned child of least index whose task did not end with Ok(()).
FirstFailed == CHOOSE c \in 1..handles :
                   /\ result[c] # "Ok"
                   /\ \A d \in 1..(c - 1) : result[d] = "Ok"

(* ------------------------------- claims ------------------------------- *)

\* C1: a child that returns Ok(()) on the shutdown branch of the select,
\* which is the only way it returns Ok, has not consumed the peeked block:
\* the last thing it did in the loop is the peek, the peeked block is still
\* the next element of its receiver, nothing is handed to the socket, and no
\* write of that block is accounted.
C1_ShutdownKeepsPeekedBlock ==
    \A c \in Children :
        (pc[c] = "done" /\ result[c] = "Ok") =>
            /\ log[c] # <<>>
            /\ Last(log[c]).ev = "peek"
            /\ buffered[c] = <<Last(log[c]).blk>>
            /\ NextItem(buffered[c], chan[c]) = Last(log[c]).blk
            /\ inflight[c] = <<>>
            /\ \A i \in 1..Len(log[c]) :
                   IsWrite(log[c][i]) => log[c][i].blk # Last(log[c]).blk

\* C1 witness: a child returned Ok while its throttle did not hold the
\* tokens of the block it had peeked.
C1_Witness ==
    \E c \in Children :
        /\ pc[c] = "done" /\ result[c] = "Ok"
        /\ buffered[c] # <<>>
        /\ ~ThrottleReady(tokens[c], total_bytes[c])

\* C2: every write is the end of peek -> grant -> remove -> write of one
\* block, the granted amount being that block's total_bytes; no block is
\* removed for sending without the grant of its size right before.
C2_PeekGrantRemoveWrite ==
    \A c \in Children :
        /\ \A i \in 1..Len(log[c]) :
             LET e == log[c][i]
             IN /\ e.ev = "next" =>
                      /\ i >= 3
                      /\ log[c][i - 1].ev = "grant"
                      /\ log[c][i - 1].n = e.blk.total_bytes
                      /\ log[c][i - 2].ev = "peek"
                      /\ log[c][i - 2].blk = e.blk
                /\ e.ev = "write" =>
                      /\ i >= 4
                      /\ log[c][i - 1].ev = "next"
                      /\ log[c][i - 1].blk = e.blk
        /\ pc[c] = "send" =>
             /\ log[c] # <<>>
             /\ Last(log[c]).ev = "next"
             /\ inflight[c] = <<Last(log[c]).blk>>

\* C2 witness: a write has happened.
C2_Witness ==
    \E c \in Children : \E i \in 1..Len(log[c]) : IsWrite(log[c][i])

\* C3: once shutdown has fired every spawned child terminates, and spin
\* returns.
C3_ShutdownTerminates ==
    /\ \A c \in Children :
         (shutdown /\ pc[c] # "unspawned") ~> (pc[c] = "done")
    /\ (shutdown /\ ppc \in {"await_shutdown", "join"}) ~> (ppc = "returned")

\* C4: after a write of s bytes failed, the child's ceiling is the s-1 of
\* its last failure, the gauge holds the s-1 of some child's last failure,
\* and every later block of more than s-1 bytes is peeked and skipped:
\* it is never granted, removed for sending or written.
C4_CeilingLearning ==
    /\ \A c \in Children : \A i \in 1..Len(log[c]) :
         FailedWrite(log[c][i]) =>
            /\ \A j \in (i + 1)..Len(log[c]) :
                 LET e == log[c][j]
                 IN /\ e.ev \in {"next", "write"} =>
                          e.blk.total_bytes <= log[c][i].blk.total_bytes - 1
                    /\ e.ev = "grant" => e.n <= log[c][i].blk.total_bytes - 1
                    /\ (e.ev = "peek"
                        /\ e.blk.total_bytes > log[c][i].blk.total_bytes - 1) =>
                          /\ j < Len(log[c])
                          /\ log[c][j + 1].ev = "skip"
                          /\ log[c][j + 1].blk = e.blk
            /\ (\A j \in (i + 1)..Len(log[c]) : ~FailedWrite(log[c][j])) =>
                 max_detected_bytes[c] = log[c][i].blk.total_bytes - 1
    /\ (\E c \in Children : \E i \in 1..Len(log[c]) : FailedWrite(log[c][i])) =>
         \E c \in Children : \E i \in 1..Len(log[c]) :
            /\ FailedWrite(log[c][i])
            /\ max_unix_datagram_bytes = log[c][i].blk.total_bytes - 1
            /\ max_unix_datagram_bytes = max_detected_bytes[c]

\* C4 witness: a write failed and a later block was skipped.
C4_Witness ==
    \E c \in Children : \E i, j \in 1..Len(log[c]) :
        /\ i < j
        /\ FailedWrite(log[c][i])
        /\ log[c][j].ev = "skip"
        /\ max_unix_datagram_bytes = log[c][i].blk.total_bytes - 1

\* C5: the ceiling is usize::MAX until the child's first failed write, no
\* step raises it, and every failed write strictly lowers it.
C5_CeilingNeverRises ==
    /\ [](\A c \in Children :
            (\A i \in 1..Len(log[c]) : ~FailedWrite(log[c][i])) =>
                max_detected_bytes[c] = UsizeMax)
    /\ [][\A c \in Children :
            /\ max_detected_bytes'[c] <= max_detected_bytes[c]
            /\ (Logged(c) /\ FailedWrite(Last(log'[c]))) =>
                  max_detected_bytes'[c] < max_detected_bytes[c]]_vars

\* C5 witness: a ceiling was lowered twice.
C5_Witness ==
    \E c \in Children : \E i, j \in 1..Len(log[c]) :
        /\ i < j
        /\ FailedWrite(log[c][i])
        /\ FailedWrite(log[c][j])
        /\ max_detected_bytes[c] < log[c][i].blk.total_bytes - 1

\* C6: a block is handed to the socket at most once: the writes of a child
\* are of pairwise different blocks, and after a write, whatever its result,
\* the loop goes on with the peek of a block it has not taken before.
C6_NoShearing ==
    \A c \in Children : \A i \in 1..Len(log[c]) :
        IsWrite(log[c][i]) =>
            /\ \A j \in (i + 1)..Len(log[c]) :
                 IsWrite(log[c][j]) => log[c][j].blk # log[c][i].blk
            /\ i < Len(log[c]) =>
                 /\ log[c][i + 1].ev = "peek"
                 /\ \A j \in 1..i : log[c][j].blk # log[c][i + 1].blk
            /\ (i = Len(log[c]) /\ pc[c] # "done") =>
                 /\ pc[c] = "peek"
                 /\ inflight[c] = <<>>
                 /\ buffered[c] = <<>>

\* C6 witness: a partial write and a failed write were both followed by
\* the peek of another block.
C6_Witness ==
    \E c \in Children : \E i, j \in 1..Len(log[c]) :
        /\ PartialWrite(log[c][i]) /\ i < Len(log[c])
        /\ FailedWrite(log[c][j]) /\ j < Len(log[c])

\* C7 as stated: a partial write is accounted as a request_failure and not
\* as bytes_written or packets_sent.
C7_PartialWriteIsFailure ==
    [][\A c \in Children :
         (Logged(c) /\ PartialWrite(Last(log'[c]))) =>
            /\ \E e \in SendErrors : request_failure'[e] = request_failure[e] + 1
            /\ bytes_written' = bytes_written
            /\ packets_sent' = packets_sent]_vars

\* C7 amended: a partial write Ok(n), n less than the block's length, is
\* accounted as a success: bytes_written grows by n, packets_sent by one,
\* request_failure and the ceiling stay as they are.
C7_PartialWriteIsSuccess ==
    [][\A c \in Children :
         (Logged(c) /\ PartialWrite(Last(log'[c]))) =>
            /\ bytes_written' = bytes_written + Last(log'[c]).n
            /\ packets_sent' = packets_sent + 1
            /\ request_failure' = request_failure
            /\ max_detected_bytes' = max_detected_bytes
            /\ max_unix_datagram_bytes' = max_unix_datagram_bytes]_vars

\* C7 witness: a partial write has been accounted.
C7_Witness ==
    \E c \in Children :
        /\ log[c] # <<>>
        /\ PartialWrite(Last(log[c]))
        /\ packets_sent > 0

\* C8: the blocks a child took from its receiver, followed by what the
\* receiver still holds, are the blocks the producer emitted, in that order;
\* the blocks written are the taken ones without the skipped ones, in the
\* same order.
C8_EmissionOrder ==
    \A c \in Children :
        LET written == Written(log[c])
        IN /\ Taken(log[c]) \o buffered[c] \o chan[c] = emitted[c]
           /\ written \o inflight[c] =
                 Taken(SelectSeq(log[c], LAMBDA e : e.ev # "skip"))
           /\ \A i \in 1..(Len(written) - 1) :
                 written[i].id < written[i + 1].id

\* C8 witness: a block was written after an earlier one was skipped.
C8_Witness ==
    \E c \in Children : \E i, j \in 1..Len(log[c]) :
        /\ i < j
        /\ log[c][i].ev = "skip"
        /\ IsWrite(log[c][j])

\* C9: until the startup value is sent no child has left the startup wait
\* other than by a startup-wait error, so none has tried to connect or to
\* write; when it is sent every child of the configuration is spawned and
\* subscribed, and each of them receives the value: a child still waiting
\* has it pending and none ends with a startup-wait error.
C9_StartupBarrier ==
    /\ ~StartupSent =>
         /\ \A c \in Children :
              /\ pc[c] \in {"unspawned", "startup", "done"}
              /\ pc[c] = "done" => result[c] = "StartupWait"
              /\ log[c] = <<>>
              /\ producer[c] = "none"
         /\ connection_failure = 0
    /\ StartupSent =>
         /\ handles = config.parallel_connections
         /\ \A c \in 1..handles :
              /\ startup_rx[c] # "none"
              /\ pc[c] # "unspawned"
              /\ pc[c] = "startup" => startup_rx[c] = "value"
              /\ result[c] # "StartupWait"

\* C9 witness: after the send two children are past the startup wait.
C9_Witness ==
    /\ StartupSent
    /\ handles = 2
    /\ pc[1] = "connect"
    /\ pc[2] = "peek"

\* C10: spin returns from the join only after shutdown, with every child
\* ended; it returns Ok exactly if every child returned Ok, and else the
\* error of the first child, in spawn order, that did not.
C10_ErrorPropagation ==
    (ppc = "returned" /\ presult # "StartupSend") =>
        /\ shutdown
        /\ \A c \in 1..handles : pc[c] = "done"
        /\ presult = "Ok" <=> \A c \in 1..handles : result[c] = "Ok"
        /\ presult # "Ok" =>
             presult = (IF result[FirstFailed] = "Panic" THEN "Child"
                        ELSE result[FirstFailed])

\* C10 witness: spin returned the error of the second child, the first
\* having returned Ok.
C10_Witness ==
    /\ ppc = "returned"
    /\ handles = 2
    /\ result[1] = "Ok"
    /\ result[2] = "Panic"
    /\ presult = "Child"

C12_ZeroIsFatal ==
    (/\ ppc # "new"
     /\ \/ config.bytes_per_second = 0
        \/ config.maximum_prebuild_cache_size_bytes = 0) =>
        /\ ppc = "failed"
        /\ presult = "Zero"
        /\ handles = 0

\* C13: with block_cache_method = fixed and parallel_connections > 1, all
\* the children of a generator hold identical block sequences.
C13_FixedChildrenIdentical ==
    (/\ caller = "new"
     /\ cpc = "constructed"
     /\ config.block_cache_method = "Fixed") =>
        \A j, k \in 1..Len(block_cache) :
            block_cache[j].blocks = block_cache[k].blocks

\* C13 amended: new makes one rng from the seed, and the Fixed caches of
\* the children are built with it one after the other: the first from the
\* start of the seed's stream, each later one from where the construction
\* before it left the rng, which is further on; so no two children's caches
\* are built from the same rng state.  With the streaming method every
\* child's cache is handed the seed itself.
C13_FixedChildrenShareRng ==
    caller = "new" =>
        /\ \A k \in 1..Len(passes) :
             /\ passes[k].start = (IF k = 1 THEN FromSeed ELSE passes[k - 1].end)
             /\ passes[k].end # -1 => passes[k].end > passes[k].start
        /\ \A k \in 1..Len(block_cache) :
             /\ config.block_cache_method = "Fixed" =>
                  /\ block_cache[k].method = "Fixed"
                  /\ passes[k].end # -1
             /\ config.block_cache_method = "Streaming" =>
                  block_cache[k] = [method |-> "Streaming", rng |-> FromSeed]

\* C13 witness: new has built the Fixed caches of two children, and they
\* differ.
C13_Witness ==
    /\ caller = "new"
    /\ cpc = "constructed"
    /\ config.block_cache_method = "Fixed"
    /\ Len(block_cache) >= 2
    /\ block_cache[1].blocks # block_cache[2].blocks

\* C14: the blocks a producer has sent and the send loop has not yet
\* taken, the one held by the peekable wrapper included, are never more
\* than the capacity of the channel.
C14_AtMostCapacityHeld ==
    \A c \in Children : Len(chan[c]) + Len(buffered[c]) <= ChannelCapacity

\* C14 amended: the blocks sent and not yet taken are those in the channel
\* and the one in the peekable wrapper's buffer, in emission order; the
\* channel never holds more than its capacity and the wrapper holds at
\* most one block more, so at most capacity + 1 blocks are held; and while
\* the channel is full the producer cannot send.
C14_AtMostCapacityPlusOneHeld ==
    \A c \in Children :
        /\ emitted[c] = Taken(log[c]) \o buffered[c] \o chan[c]
        /\ Len(chan[c]) <= ChannelCapacity
        /\ Len(buffered[c]) <= 1
        /\ Len(chan[c]) + Len(buffered[c]) <= ChannelCapacity + 1
        /\ Len(chan[c]) = ChannelCapacity => ~ENABLED Produce(c)

\* C14 witness: a block is held by the peekable wrapper while the channel
\* is full.
C14_Witness ==
    \E c \in Children :
        /\ Len(buffered[c]) = 1
        /\ Len(chan[c]) = ChannelCapacity

\* The takes (next) among the first i events of a history.
TakesBefore(q, i) == Cardinality({j \in 1..(i - 1) : IsTake(q[j])})

\* C15: with item x at the head of a child's receiver, each of k >= 1
\* consecutive peeks returns x and leaves the held items and their order
\* as they were; the next() that follows returns x; the peek after that
\* returns the successor of x.  In the send loop: every peek returns the
\* first emitted block not yet taken, and every take returns the block of
\* the peek before it.
C15_PeekIdempotent ==
    \A c \in Children :
        /\ PeekHasItem(buffered[c], chan[c]) =>
             LET held == buffered[c] \o chan[c]
                 x == Head(held)
             IN \A k \in 1..MaxPeeks :
                  LET r == PeekTimes(k, buffered[c], chan[c])
                      after == NextChannel(r.buf, r.ch)
                  IN /\ r.buf = <<x>>
                     /\ r.buf \o r.ch = held
                     /\ NextItem(r.buf, r.ch) = x
                     /\ after = Tail(held)
                     /\ after # <<>> =>
                          PeekBuffer(<<>>, after) = <<held[2]>>
        /\ LET takes == {j \in 1..Len(log[c]) : IsTake(log[c][j])}
           IN \A i \in 1..Len(log[c]) :
                /\ log[c][i].ev = "peek" =>
                     log[c][i].blk =
                        emitted[c][Cardinality({j \in takes : j < i}) + 1]
                /\ i \in takes =>
                     \E j \in 1..(i - 1) :
                         /\ log[c][j].ev = "peek"
                         /\ log[c][j].blk = log[c][i].blk
                         /\ \A m \in (j + 1)..(i - 1) : log[c][m].ev = "grant"

\* C15 witness: a child peeked a block, took it, and peeked its successor,
\* which is buffered while another block waits in the channel.
C15_Witness ==
    \E c \in Children :
        /\ buffered[c] # <<>> /\ chan[c] # <<>>
        /\ \E i, j \in 1..Len(log[c]) :
             /\ i < j
             /\ log[c][i].ev = "next"
             /\ log[c][j].ev = "peek"
             /\ log[c][j].blk = emitted[c][TakesBefore(log[c], j) + 1]
             /\ log[c][j].blk.id = log[c][i].blk.id + 1

\* C16: a child's throttle loses tokens only in the step in which wait_for
\* completes, and then exactly the total_bytes of the block that the same
\* step takes and hands to the socket; every block handed to the socket
\* was paid for so; and the step in which the shutdown branch wins, which
\* drops the wait_for, leaves the throttle's level as it was.  So the
\* tokens deducted over a run are the sum of total_bytes of the blocks
\* whose write was attempted.
C16_DroppedWaitTakesNoTokens ==
    [][\A c \in Children :
          /\ tokens'[c] < tokens[c] =>
               /\ pc[c] = "select" /\ pc'[c] = "send"
               /\ inflight'[c] # <<>>
               /\ tokens[c] - tokens'[c] = inflight'[c][1].total_bytes
          /\ (pc[c] # "send" /\ pc'[c] = "send") =>
               /\ inflight'[c] # <<>>
               /\ tokens[c] - tokens'[c] = inflight'[c][1].total_bytes
          /\ (pc[c] = "select" /\ pc'[c] = "done") =>
               /\ result'[c] = "Ok"
               /\ tokens'[c] = tokens[c]
               /\ log'[c] = log[c]
      ]_vars

\* C16 witness: the shutdown branch won while the throttle held tokens,
\* but fewer than the peeked block needs, after an earlier write.
C16_Witness ==
    \E c \in Children :
        /\ pc[c] = "done" /\ result[c] = "Ok"
        /\ tokens[c] > 0
        /\ tokens[c] < total_bytes[c]
        /\ \E i \in 1..Len(log[c]) : IsWrite(log[c][i])

\* C17: when to_bytes returns Ok, the bytes it appended to the writer are
\* at most max_bytes, for DogStatsD and for TraceAgent in JSON and in
\* MsgPack; DogStatsD keeps what it wrote and bytes_remaining within
\* max_bytes throughout.
C17_SerializerBudget ==
    /\ spc = "ok" => writer <= max_bytes
    /\ (payload = "DogStatsD" /\ spc \in {"loop", "ok"}) =>
          /\ bytes_remaining >= 0
          /\ writer + bytes_remaining = max_bytes

\* C17 witness: DogStatsD returned Ok having written exactly max_bytes, in
\* more than one line.
C17_Witness ==
    /\ payload = "DogStatsD"
    /\ spc = "ok"
    /\ writer = max_bytes
    /\ writer > MaxMemberLen + 1

\* The largest element of a set of sizes.
MaxOf(S) == CHOOSE x \in S : \A y \in S : y <= x

\* C18: the total_bytes of the blocks of a Fixed cache sum to at most the
\* budget it was built for: while it is built the blocks made and what
\* remains add up to the budget, and generate_and_check's u32 sum of the
\* block sizes is the true sum, without wrapping.
C18_FixedWithinBudget ==
    /\ \A k \in 1..Len(block_cache) :
         block_cache[k].method = "Fixed" =>
             SumBytes(block_cache[k].blocks)
                 <= config.maximum_prebuild_cache_size_bytes
    /\ cpc = "fixed" =>
         /\ remaining >= 0
         /\ SumBytes(blocks) + remaining
                = config.maximum_prebuild_cache_size_bytes
    /\ (caller = "generate_and_check" /\ cpc = "done") =>
         /\ total_generated_bytes = SumBytes(block_cache[1].blocks)
         /\ total_generated_bytes <= config.maximum_prebuild_cache_size_bytes

\* C18 witness: generate_and_check summed a cache of several blocks that
\* fills its budget, the largest a u32 holds.
C18_Witness ==
    /\ caller = "generate_and_check"
    /\ cpc = "done"
    /\ Len(block_cache[1].blocks) >= 2
    /\ config.maximum_prebuild_cache_size_bytes = U32Modulus - 1
    /\ total_generated_bytes = config.maximum_prebuild_cache_size_bytes

C20_FailedWriteReconnects ==
    \A c \in Children :
        \A i, j \in 1..Len(log[c]) :
            (i < j /\ FailedWrite(log[c][i]) /\ IsWrite(log[c][j])) =>
                \E m \in (i + 1)..(j - 1) : log[c][m].ev = "connect"

\* C21: for every min <= max, the sample of Inclusive { min, max } is a
\* value between min and max, the value max can be returned, and the call
\* does not fail (also not when min = max).
C21_InclusiveOfMax ==
    (conf_range.kind = "Inclusive" /\ conf_range.min <= conf_range.max) =>
        /\ sample.st # "panic"
        /\ sample.st = "ok" =>
             (conf_range.min <= sample.v /\ sample.v <= conf_range.max)
        /\ sample.st = "call" => ENABLED SampleInclusive(conf_range.max)

\* What C22 says of the answer to a POST to the ack path: status 200 and a
\* map of exactly the ids asked about, each with true, when the body is a
\* JSON object with a list acks of u64 ids; status 400 for any other body.
AckAnswered(a) ==
    LET body == a.req.body
        ids == {body.acks[i] : i \in 1..Len(body.acks)}
    IN IF body.kind = "acks" /\ ids \subseteq Nat
       THEN /\ a.resp.status = "OK"
            /\ DOMAIN a.resp.acks = ids
            /\ \A id \in ids : a.resp.acks[id] = TRUE
            /\ a.resp.ack_id = <<>>
       ELSE /\ a.resp.status = "BAD_REQUEST"
            /\ a.resp.acks = NoAcks

\* C22 as stated: every POST to /services/collector/ack with a well-formed
\* {acks: [ids]} body is answered with status 200 and a map of exactly the
\* ids asked about, each with true; any other body with status 400.
C22_EveryAckPost ==
    (answered.n > 0 /\ IsAckPost(answered.req)) => AckAnswered(answered)

\* C22 amended: so is every POST to /services/collector/ack whose body
\* codec::decode accepted (an id asked about twice is held once); a POST
\* whose Content-Encoding cannot be decoded is answered by the codec's own
\* response, whatever its body.
C22_AckPath ==
    (answered.n > 0 /\ IsAckPost(answered.req)) =>
        IF Decodes(answered.req)
        THEN AckAnswered(answered)
        ELSE /\ answered.resp.status = "codec"
             /\ answered.resp.acks = NoAcks

\* C22 witness: an ack request that asks about one id more than once was
\* answered with status 200 and a map of that one id.
C22_Witness ==
    /\ IsAckPost(answered.req)
    /\ answered.resp.status = "OK"
    /\ Len(answered.req.body.acks) = MaxAcks
    /\ Cardinality(DOMAIN answered.resp.acks) = 1

\* C23 as stated: every POST to an event or raw path performs one
\* fetch-and-add of the counter and is answered with the value read.
C23_EveryEventPost ==
    [][(answered'.n # answered.n /\ IsEventPost(answered'.req)) =>
          /\ ACK_ID' = ACK_ID + 1
          /\ answered'.resp.ack_id = <<ACK_ID>>]_vars

\* C23 amended: the counter starts at zero; srv adds one to it, in one
\* atomic step, exactly when it answers a POST to an event or raw path
\* whose body codec::decode accepted, and that answer carries the value
\* read; every other answer (ack path, unknown route, a Content-Encoding
\* that cannot be decoded) carries no ackId and leaves the counter as it
\* was, as does every step that answers nothing.  So, however the
\* requests of concurrent connections interleave, the ackIds handed out
\* are 0, 1, .., k - 1 in this order, no two of them equal, and the
\* counter is k.
C23_AckIdsUnique ==
    [][/\ answered'.n # answered.n =>
            IF IsEventPost(answered'.req) /\ Decodes(answered'.req)
            THEN /\ ACK_ID' = ACK_ID + 1
                 /\ answered'.resp.ack_id = <<ACK_ID>>
            ELSE /\ ACK_ID' = ACK_ID
                 /\ answered'.resp.ack_id = <<>>
       /\ answered'.n = answered.n => ACK_ID' = ACK_ID
       /\ \A i \in 1..Len(ack_ids') : ack_ids'[i] = i - 1
       /\ ACK_ID' = Len(ack_ids')]_vars

\* C23 witness: two connections are served at once; one event POST was
\* answered with ackId 0 while the other connection's event POST is being
\* worked on, after an answer that carried no ackId.
C23_Witness ==
    /\ ack_ids = <<0>>
    /\ ACK_ID = 1
    /\ ~IsEventPost(answered.req)
    /\ \E j, k \in Conns :
         /\ j # k
         /\ conn[j] = "serving" /\ conn[k] = "serving"
         /\ IsEventPost(request[k])

\* The connections being served: their tasks hold a permit.
Serving == {k \in Conns : conn[k] = "serving"}

\* C24: at no time are more than concurrent_requests_max connections
\* being served, and the permits not held by a connection being served
\* are all in the semaphore: a connection whose serving ended, with Ok or
\* with an error, holds none.
C24_ConcurrencyLimit ==
    /\ Cardinality(Serving) <= hec_config.concurrent_requests_max
    /\ hec_pc \in {"select", "drain", "done"} =>
         sem + Cardinality(Serving) = hec_config.concurrent_requests_max

\* C24 witness: with a single permit, a connection is served after the
\* serving of another one ended with an error.
C24_Witness ==
    /\ hec_config.concurrent_requests_max = 1
    /\ \E j, k \in Conns : conn[j] = "error" /\ conn[k] = "serving"

\* C25: the sub-server's spin starts only once the target's PID has been
\* sent on the pid channel and received by run: it never starts when no
\* PID was sent, as when the sender was dropped without sending.
C25_SpinOnlyAfterPid ==
    run_pc \in {"spin", "returned"} => pid_received = "Ok"

\* The generators a run of payloadtool is to check: the first one with
\* the id given as generator_id, or all of them.
ToCheck ==
    IF args.generator_id = "none" THEN 1..Len(generators)
    ELSE {i \in 1..Len(generators) :
            /\ generators[i].id = args.generator_id
            /\ \A j \in 1..(i - 1) : generators[j].id # args.generator_id}

\* C26: main returns Ok exactly when the file was read and deserialized,
\* the generator asked for exists, and the block cache of every generator
\* to check was built, be it with fewer bytes than requested; every other
\* run ends with an error or a panic: InvalidArgs for an unknown
\* generator_id, Io, Deserialize, and the failure of the first generator
\* whose cache is not built.
C26_ToolOutcome ==
    tool_pc = "done" =>
        LET Built(g) == g.inner = "UnixDatagram" /\ g.cache \in {"exact", "short"}
        IN /\ tool_result = "Ok" <=>
                /\ file = "ok"
                /\ args.generator_id # "none" => ToCheck # {}
                /\ \A i \in ToCheck : Built(generators[i])
           /\ tool_result \in {"Ok", "Err(InvalidArgs)", "Err(Io)",
                                "Err(Deserialize)", "Err(Block)", "panic"}
           /\ tool_result = "Err(InvalidArgs)" <=>
                (file = "ok" /\ args.generator_id # "none" /\ ToCheck = {})
           /\ tool_result = "Err(Io)" <=> file = "read_error"
           /\ tool_result = "Err(Deserialize)" <=> file = "bad_yaml"
           /\ tool_result = "Err(Block)" =>
                \E i \in ToCheck : generators[i].cache = "error"

\* C26 witness: main returned Ok after checking all of several
\* generators, one of which got a cache of fewer bytes than requested and
\* a warning.
C26_Witness ==
    /\ tool_pc = "done"
    /\ tool_result = "Ok"
    /\ args.generator_id = "none"
    /\ Len(generators) >= 2
    /\ warnings >= 1

\* C27: in the Config deserialized from a document, a field that is
\* absent has its default: telemetry is Prometheus at 0.0.0.0:9000,
\* block_cache_method is streaming, parallel_connections is 1, block_sizes
\* is None, throttle is the default, the id of a generator or blackhole is
\* None; a field that is given has the value given; the generators and
\* the blackholes are those of the document, in its order.
C27_ConfigDefaults ==
    parsed.result = "Ok" =>
        LET gens == IF contents.generator = Absent THEN <<>>
                    ELSE contents.generator[1]
            holes == IF contents.blackhole = Absent THEN <<>>
                     ELSE contents.blackhole[1]
            Is(field, got, default) ==
                IF field = Absent THEN got = default ELSE got = field[1]
        IN /\ IF contents.telemetry = TelemetryOf(Absent, Absent, Absent)
              THEN /\ parsed.telemetry.prometheus_addr = <<"0.0.0.0:9000">>
                   /\ parsed.telemetry.path = Absent
              ELSE parsed.telemetry = contents.telemetry
           /\ Len(parsed.generator) = Len(gens)
           /\ \A i \in 1..Len(gens) :
                LET e == gens[i]
                    g == parsed.generator[i]
                IN /\ g.general.id = e.id
                   /\ Is(e.block_cache_method, g.block_cache_method, "streaming")
                   /\ Is(e.parallel_connections, g.parallel_connections, 1)
                   /\ g.block_sizes = e.block_sizes
                   /\ Is(e.throttle, g.throttle, "default")
           /\ (contents.blackhole = Absent) = (parsed.blackhole = Absent)
           /\ parsed.blackhole # Absent =>
                /\ Len(parsed.blackhole[1]) = Len(holes)
                /\ \A i \in 1..Len(holes) :
                     parsed.blackhole[1][i].general.id = holes[i].id

\* C27 witness: a document without telemetry was deserialized; its first
\* generator gives none of the fields that have a default, its second
\* one all of them; the first of its two blackholes has an id, the second
\* none.
C27_Witness ==
    /\ parsed.result = "Ok"
    /\ contents.telemetry = TelemetryOf(Absent, Absent, Absent)
    /\ contents.generator # Absent
    /\ Len(contents.generator[1]) = 2
    /\ contents.generator[1][1] = GeneratorOf(Absent, Absent, Absent, Absent, Absent)
    /\ contents.generator[1][2].parallel_connections = <<2>>
    /\ contents.generator[1][2].block_cache_method = <<"fixed">>
    /\ contents.blackhole # Absent
    /\ Len(contents.blackhole[1]) = 2
    /\ contents.blackhole[1][1].id = <<"a">>
    /\ contents.blackhole[1][2].id = Absent

\* C28: the adaptive ceiling is lowered only by a size-related rejection: a
\* write that fails for another reason leaves max_detected_bytes and the
\* max_unix_datagram_bytes gauge as they were.
C28_OnlySizeErrorsLower ==
    [][\A c \in Children :
         (/\ Logged(c)
          /\ FailedWrite(Last(log'[c]))
          /\ Last(log'[c]).err # "EMSGSIZE")
         => /\ max_detected_bytes'[c] = max_detected_bytes[c]
            /\ max_unix_datagram_bytes' = max_unix_datagram_bytes]_vars

SuccessfulWrite(e) == e.ev = "write" /\ e.err = "none"
Committed(e) == e.ev = "next"
FailedWith(e, err) == e.ev = "write" /\ e.err = err

\* The bytes the successful sends among the first i events returned.
RECURSIVE BytesReturned(_, _)
BytesReturned(q, i) ==
    IF i = 0 THEN 0
    ELSE (IF SuccessfulWrite(q[i]) THEN q[i].n ELSE 0)
         + BytesReturned(q, i - 1)

\* The sum of f over the children 1..n, and over the send errors.
RECURSIVE SumChildren(_, _)
SumChildren(f, n) == IF n = 0 THEN 0 ELSE f[n] + SumChildren(f, n - 1)
RequestFailures == request_failure["EMSGSIZE"] + request_failure["ENOBUFS"]

\* The counters of the send loop against the sends that have returned; the
\* children of a generator share the counters.
Accounted ==
    /\ bytes_written =
          SumChildren([c \in Children |->
                         BytesReturned(log[c], Len(log[c]))], MaxChildren)
    /\ packets_sent =
          SumChildren([c \in Children |->
                         Cardinality({i \in 1..Len(log[c]) :
                                        SuccessfulWrite(log[c][i])})],
                      MaxChildren)
    /\ \A err \in SendErrors :
          request_failure[err] =
             SumChildren([c \in Children |->
                            Cardinality({i \in 1..Len(log[c]) :
                                           FailedWith(log[c][i], err)})],
                         MaxChildren)

\* Throttle grants followed by rcv.next(), and the sends still awaited.
Commits ==
    SumChildren([c \in Children |->
                   Cardinality({i \in 1..Len(log[c]) :
                                  Committed(log[c][i])})], MaxChildren)
SendsInFlight == SumChildren([c \in Children |-> Len(inflight[c])], MaxChildren)

\* C30 as stated: in every reachable state the counters equal what the
\* sends returned, and packets_sent + request_failure equals the number of
\* throttle grants that were followed by a commit.
C30_AccountingEveryState ==
    /\ Accounted
    /\ packets_sent + RequestFailures = Commits

\* C30: in every reachable state bytes_written is the sum of the byte counts
\* the successful sends returned, packets_sent their number, request_failure
\* the number of failed sends, and packets_sent + request_failure the number
\* of committed throttle grants less the send still awaited. A skip or the
\* shutdown adds no send to the history, so it changes none of the counters.
C30_Accounting ==
    [](/\ Accounted
       /\ packets_sent + RequestFailures = Commits - SendsInFlight)

\* A send was cut short, a send failed, and one more block is committed with
\* its send still awaited.
C30_Witness ==
    \E c \in Children :
       /\ inflight[c] # <<>>
       /\ \E i \in 1..Len(log[c]) : FailedWrite(log[c][i])
       /\ \E i \in 1..Len(log[c]) : PartialWrite(log[c][i])

\* C31: TraceAgent::to_bytes terminates for every max_bytes and both
\* encodings: the halving of high reaches a prefix of the members whose
\* encoding fits in max_bytes, and to_bytes returns.
C31_TraceAgentTerminates ==
    (payload # "DogStatsD") => <>(spc \in {"ok", "err"})

ClosedAtPeek(c) ==
    /\ pc[c] = "peek"
    /\ producer[c] = "ended"
    /\ ~PeekHasItem(buffered[c], chan[c])

\* C33: a closed channel is terminal for the child: a child at the peek of
\* a closed channel with nothing buffered can only end, with the panic of
\* the expect; it has no send in flight and writes nothing afterwards; and
\* once the parent's spin has returned, shutdown has fired and spin has
\* returned an error, which is this child's (Error::Child) when no child
\* spawned before it failed.
C33_ChannelClosedTerminal ==
    /\ [](\A c \in Children :
            /\ ClosedAtPeek(c) => ENABLED Peek(c)
            /\ result[c] = "Panic" => (pc[c] = "done" /\ inflight[c] = <<>>)
            /\ (ppc = "returned" /\ c <= handles /\ result[c] = "Panic") =>
                  /\ shutdown
                  /\ presult \notin {"none", "Ok"}
                  /\ (\A d \in 1..(c - 1) : result[d] = "Ok")
                        => presult = "Child")
    /\ [][\A c \in Children :
            /\ (ClosedAtPeek(c) /\ pc'[c] # pc[c]) =>
                  /\ pc'[c] = "done"
                  /\ result'[c] = "Panic"
                  /\ log'[c] = log[c]
            /\ pc[c] = "done" =>
                  /\ pc'[c] = "done"
                  /\ result'[c] = result[c]
                  /\ log'[c] = log[c]]_vars

\* The second child found its channel closed and ended; the first returned
\* Ok on shutdown and spin returned the second child's error.
C33_Witness ==
    /\ ppc = "returned"
    /\ presult = "Child"
    /\ handles = 2
    /\ result[1] = "Ok"
    /\ result[2] = "Panic"

\* C34: once the child (the first, the one a generator of one connection
\* has) has returned on shutdown its producer thread, whether between two
\* blocks or waiting on a full channel, ends; and after any child has
\* returned its producer puts no further block into the channel.
C34_ProducerTerminates ==
    /\ (result[1] = "Ok" /\ producer[1] = "running")
          ~> (producer[1] = "ended")
    /\ [][\A c \in Children :
            result[c] # "none" =>
               /\ emitted'[c] = emitted[c]
               /\ chan'[c] = chan[c]
               /\ producer'[c] \in {producer[c], "ended"}]_vars

\* The child returned on shutdown while its channel was full and blocks
\* were still to come, and the producer has ended.
C34_Witness ==
    \E c \in Children :
       /\ result[c] = "Ok"
       /\ producer[c] = "ended"
       /\ Len(chan[c]) = SndCapacity
       /\ TotalEmitted < MaxBlocks

\* C35: once run has taken the shutdown branch no connection is accepted;
\* run returns Ok only after shutdown and with every connection task
\* finished; an accept error leaves run in its loop, with its connections
\* and permits as they were; and with concurrent_requests_max >= 1 and
\* connections that all end, run returns once shutdown has fired.
C35_HecShutdown ==
    /\ [](hec_pc = "done" =>
            /\ hec_shutdown
            /\ \A k \in Conns : conn[k] \in {"none", "ok", "error"})
    /\ [][/\ hec_pc \in {"drain", "done"} =>
               \A k \in Conns : conn[k] = "none" => conn'[k] = "none"
          /\ accept_errors' # accept_errors =>
               /\ hec_pc' = "select"
               /\ conn' = conn
               /\ sem' = sem]_vars
    /\ (hec_shutdown /\ hec_config.concurrent_requests_max >= 1)
          ~> (hec_pc \in {"done", "err_io"})

\* An accept failed, two connections were accepted and served, one to its
\* end and one to an error, and run has returned.
C35_Witness ==
    /\ hec_pc = "done"
    /\ accept_errors > 0
    /\ requests_received > 0
    /\ \E k \in Conns : conn[k] = "ok"
    /\ \E k \in Conns : conn[k] = "error"

\* C36: shutdown is observed on the oversized-skip path: once shutdown has
\* fired, a pass of the send loop that found a block gets to the select!,
\* where the shutdown signal is polled; the child does not go from skip to
\* skip without polling it.
C36_SkipPollsShutdown ==
    [][\A c \in Children :
         (shutdown /\ pc[c] = "peek" /\ Logged(c)) => pc'[c] = "select"]_vars

\* C37: a construction that failed emits no traffic: the children spawned
\* before new returned its error wait at the startup receiver or have ended
\* with the startup-wait error; none has connected, counted a connection
\* failure, started a producer or written; and each of them ends.
C37_FailedNewNoTraffic ==
    /\ [](ppc = "failed" =>
            /\ connection_failure = 0
            /\ bytes_written = 0
            /\ packets_sent = 0
            /\ \A c \in Children :
                  /\ c > handles => pc[c] = "unspawned"
                  /\ c <= handles =>
                        /\ pc[c] \in {"startup", "done"}
                        /\ pc[c] = "done" <=> result[c] = "StartupWait"
                        /\ pc[c] = "startup" => result[c] = "none"
                        /\ producer[c] = "none"
                        /\ emitted[c] = <<>>
                        /\ log[c] = <<>>)
    /\ (ppc = "failed")
          ~> (\A c \in 1..handles : result[c] = "StartupWait")

\* new failed at a later child's cache and the children spawned before it
\* have ended with the startup-wait error.
C37_Witness ==
    /\ ppc = "failed"
    /\ presult = "Block"
    /\ handles >= 1
    /\ \A c \in 1..handles : result[c] = "StartupWait"

\* C38: when the startup send succeeded spin does not return before the
\* shutdown signal has fired: while it has not fired spin has reported
\* nothing, whatever the children's outcomes, no child has returned Ok, and
\* the end of one child changes no other child's position or outcome.
C38_SpinWaitsForShutdown ==
    /\ []((ppc \in {"await_shutdown", "join", "returned"}
           /\ presult # "StartupSend") =>
             /\ ppc \in {"join", "returned"} => shutdown
             /\ ~shutdown => presult = "none"
             /\ \A c \in Children : result[c] = "Ok" => shutdown)
    /\ [][\A c \in Children :
            (pc[c] # "done" /\ pc'[c] = "done") =>
               \A d \in Children \ {c} :
                  pc'[d] = pc[d] /\ result'[d] = result[d]]_vars

\* Shutdown has not fired, the first child has ended with a panic, the
\* second child is in its send loop and spin is waiting.
C38_Witness ==
    /\ ~shutdown
    /\ ppc = "await_shutdown"
    /\ result[1] = "Panic"
    /\ pc[2] = "select"

\* A step of child c's task.
StepOf(c) == pc[c] # "unspawned" /\ (pc'[c] # pc[c] \/ Logged(c))

\* C39: the children are isolated: a step of one child (a failed write, a
\* skip, a throttle wait among them) changes no other child's ceiling,
\* pending block, channel, tokens or history; the gauge
\* max_unix_datagram_bytes is common to them and holds the ceiling of the
\* child whose write failed last.
C39_ChildrenIsolated ==
    [][\A c \in Children :
         StepOf(c) =>
            /\ \A d \in Children \ {c} :
                  /\ max_detected_bytes'[d] = max_detected_bytes[d]
                  /\ buffered'[d] = buffered[d]
                  /\ chan'[d] = chan[d]
                  /\ inflight'[d] = inflight[d]
                  /\ total_bytes'[d] = total_bytes[d]
                  /\ tokens'[d] = tokens[d]
                  /\ log'[d] = log[d]
            /\ IF Logged(c) /\ FailedWrite(Last(log'[c]))
               THEN max_unix_datagram_bytes' = max_detected_bytes'[c]
               ELSE /\ max_unix_datagram_bytes' = max_unix_datagram_bytes
                    /\ max_detected_bytes'[c] = max_detected_bytes[c]]_vars

\* The first child's write failed and lowered its ceiling and the gauge;
\* the second child, with its ceiling untouched, has a block pending.
C39_Witness ==
    /\ max_detected_bytes[1] < UsizeMax
    /\ max_unix_datagram_bytes = max_detected_bytes[1]
    /\ \E i \in 1..Len(log[1]) : FailedWrite(log[1][i])
    /\ max_detected_bytes[2] = UsizeMax
    /\ pc[2] = "select"
    /\ buffered[2] # <<>>

\* C40: byte quantities survive the conversion to a nonzero 32-bit value:
\* when bytes_per_second and maximum_prebuild_cache_size_bytes are above
\* zero, 2^32 and more included, new does not fail with Zero and the
\* throttle of every child it spawns gets bytes_per_second itself.
C40_QuantitiesSurvive ==
    [][(/\ ppc = "new"
        /\ ppc' # "new"
        /\ config.bytes_per_second > 0
        /\ config.maximum_prebuild_cache_size_bytes > 0) =>
          /\ presult' # "Zero"
          /\ \A c \in 1..handles' : tokens'[c] = config.bytes_per_second]_vars
====
